---- MODULE Spec2Model ----
(***************************************************************************)
(* Model of the Kalibr SDK routing core (kalibr/router.py): the Router's   *)
(* completion() decide / dispatch / fallback loop and its report()         *)
(* outcome-reporting contract.  The decision service (decide,              *)
(* report_outcome) and the provider SDKs are the environment: each call    *)
(* returns or raises, chosen nondeterministically.                         *)
(***************************************************************************)
EXTENDS Integers, Sequences, FiniteSets, TLC

(***************************************************************************)
(* Bounds of the model.                                                    *)
(***************************************************************************)
MaxPaths == 2
MaxReports == 2
NumThreads == 2
MaxCalls == 1
\* The capacity of the hop ring (TraceCapsule.MAX_HOPS), and the hops one thread appends
MaxHops == 2
HopsPerThread == 2
\* The get_instance calls one thread makes
MaxGets == 2
\* The batcher: the capacity of its queue, its batch_size, the events the callbacks
\* build, and how far the clock runs
QueueCapacity == 1
BatchSize == 2
MaxEvents == 3
MaxTime == 1
\* flush_interval, the unit of the clock
FlushInterval == 1
MaxMessages == 3
\* The cost computations made one after the other
MaxCostCalls == 2

(***************************************************************************)
(* Values.  None is Python's None for string-valued fields; NoneDict is    *)
(* Python's None for dict-valued fields; EmptyDict is {}.  A dict is a     *)
(* function from its keys to its values.                                   *)
(***************************************************************************)
None == "None"
NoneDict == [None |-> 0]
EmptyDict == [k \in {} |-> 0]

\* The models paths are declared with, and a model no path declares
Models == {"gpt-4o", "claude-3-sonnet"}
UndeclaredModel == "gemini-pro"
KwargChoices == {EmptyDict, [temperature |-> 2, max_tokens |-> 5]}
\* The (tool_id, params, trace_id) a decision carries
\* (trace ids are written with two hex digits for the thirty-two of the service)
DecisionVariants == {[tool_id |-> "calendar", params |-> [top_p |-> 3], trace_id |-> "a1"],
                     [tool_id |-> None, params |-> NoneDict, trace_id |-> None],
                     [tool_id |-> None, params |-> NoneDict, trace_id |-> ""]}
\* Decisions whose trace id is not a hex identifier, or is the all-zero one
UnusableTraceVariants == {[tool_id |-> None, params |-> NoneDict, trace_id |-> "zz"],
                          [tool_id |-> None, params |-> NoneDict, trace_id |-> "00"]}
\* What uuid.uuid4().hex gives
FreshTraceIds == {"f1"}
\* The trace id the tracer gives a span started without a parent context
TracerTraceIds == {"b2"}
ForceChoices == {None, UndeclaredModel} \cup Models
\* The trace id an application passes to report() explicitly
ExplicitTraceId == "e9"
Goal == "book_meeting"

\* Python truthiness of a string-or-None value
Truthy(x) == x \notin {None, ""}

\* Python truthiness of a dict-or-None value
DictTruthy(d) == d # NoneDict /\ DOMAIN d # {}

\* d.get(k) on a dict d
Get(d, k) == IF k \in DOMAIN d THEN d[k] ELSE None

\* (p or {}) on a dict-or-None value
OrEmpty(p) == IF DictTruthy(p) THEN p ELSE EmptyDict

\* {**a, **b}: the keys of both, b's value winning on a key of both
MergeDicts(a, b) == [k \in DOMAIN a \cup DOMAIN b |-> IF k \in DOMAIN b THEN b[k] ELSE a[k]]

\* A normalized path, as _normalize_paths and add_path build it
Path(model, tools, params) == [model |-> model, tools |-> tools, params |-> params]

\* The paths a router is declared with: bare model names, and one structured spec
PathChoices == {Path(m, None, NoneDict) : m \in Models} \cup
               {Path("gpt-4o", "search", [temperature |-> 1])}

\* The decisions decide(goal) can return
Decisions ==
  {[model_id |-> m, tool_id |-> v.tool_id, params |-> v.params, trace_id |-> v.trace_id] :
     m \in Models \cup {None}, v \in DecisionVariants}

\* What decide(goal) can do: raise, or return a decision
DecideResults ==
  {[raises |-> TRUE, body |-> NoneDict]} \cup {[raises |-> FALSE, body |-> d] : d \in Decisions}
\* What decide(goal) can do when the service's trace ids need not be usable
TraceDecideResults ==
  DecideResults \cup
  {[raises |-> FALSE,
    body |-> [model_id |-> m, tool_id |-> v.tool_id, params |-> v.params,
              trace_id |-> v.trace_id]] : m \in Models \cup {None}, v \in UnusableTraceVariants}
\* The decide result handed to a call that does not call decide
NotCalled == [raises |-> TRUE, body |-> NoneDict]

\* What evaluating success_when on the response can do
PredicateResults == {"true", "false", "raise"}

\* The arguments callers give report()
ReportArgs ==
  {[success |-> TRUE, reason |-> None, trace_id |-> None],
   [success |-> FALSE, reason |-> "empty_response", trace_id |-> ExplicitTraceId]}

\* The parameters Router.report declares (score is left at its default)
ReportParameters == {"success", "reason", "score", "trace_id"}
\* The closed set of failure categories
FAILURE_CATEGORIES ==
  {"timeout", "context_exceeded", "tool_error", "rate_limited", "validation_failed",
   "hallucination_detected", "user_unsatisfied", "empty_response", "malformed_output",
   "auth_error", "provider_error", "unknown"}
\* report() calls that pass a failure_category: one outside the closed set, one in it
CategoryReportArgs ==
  {[success |-> FALSE, reason |-> None, trace_id |-> None, failure_category |-> "nope"],
   [success |-> FALSE, reason |-> "timed out", trace_id |-> None,
    failure_category |-> "timeout"]}

VARIABLES
  goal,              \* Router.goal
  paths,             \* Router._paths
  success_when,      \* whether Router.success_when is configured
  last_trace_id,     \* Router._last_trace_id
  last_model_id,     \* Router._last_model_id
  last_decision,     \* Router._last_decision
  outcome_reported,  \* Router._outcome_reported
  pc,                \* "idle", or "dispatching" inside completion()'s attempt loop
  force_model,       \* completion(): the force_model argument (the locals of a
                     \* completion() are kept until the application's next call)
  decision,          \* completion(): local decision
  trace_id,          \* completion(): local trace_id
  kwargs,            \* completion(): the caller's keyword arguments
  paths_to_try,      \* completion(): local paths_to_try
  idx,               \* completion(): position of the attempt loop (1-based)
  last_exception,    \* completion(): local last_exception
  decide_status,     \* decide() in the current completion(): "not_called", "returned", "raised"
  provider_calls,    \* _dispatch calls made by the current completion(), in order
                     \* (kept until the application's next call)
  outcomes,          \* report_outcome requests made since the current completion() began, in order
  accepted,          \* whether the decision service has accepted an outcome since the
                     \* current completion() began
  auto_eval,         \* what evaluating success_when did in the current completion()
  result,            \* what the last completion() gave its caller
  report_status,     \* what the application's last report() did, since the current
                     \* completion() began
  report_args,       \* the arguments of that report()
  span_trace_id,     \* the trace id of the routing span of the last completion()
                     \* (0 before the first one)
  env,               \* os.environ: KALIBR_API_KEY and KALIBR_TENANT_ID
  ctor,              \* Router.__init__: its status, its auto_register argument and the
                     \* position of _register_paths' loop
  register_calls,    \* register_path requests made by Router.__init__, in order
  threads,           \* the application's threads: where each is in the module-level
                     \* function it is calling, and that call's locals
  singleton,         \* the module-level singletons: _intelligence_client,
                     \* _openai_instrumentation, _anthropic_instrumentation (0 is None)
  openai_lock,       \* _openai_lock: the thread holding it, or 0
  instances,         \* every object constructed so far, in order; an object's
                     \* identity is its position
  collector,         \* collector._tracer_provider, collector._is_configured, and the
                     \* provider installed with trace.set_tracer_provider (0 is None)
  returned,          \* per module-level accessor, the objects its calls have returned
  requests,          \* the requests the convenience functions have made, in order
  capsule,           \* the TraceCapsule: last_n_hops, aggregate_cost_usd (in hundredths
                     \* of a dollar), aggregate_latency_ms, and the number of hops
                     \* appended so far
  hop_threads,       \* per thread appending hops: how many it has appended, whether it
                     \* has completed
  hops_ever,         \* the number, the cost and the duration of all hops ever appended
  batcher_instances, \* EventBatcher._instances: from key to batcher (its position in
                     \* batchers_made)
  registry_lock,     \* EventBatcher._lock: the thread holding it, or 0
  batchers_made,     \* every EventBatcher constructed so far (each has its own queue
                     \* and flush thread), with the arguments it was constructed with
  getters,           \* per thread calling EventBatcher.get_instance: where it is, its
                     \* arguments, its local key
  got,               \* the (endpoint, api_key, batcher) of every get_instance call that
                     \* has returned
  event_queue,       \* one EventBatcher's _event_queue: the events waiting, oldest first
  events,            \* per callback call, in order, what became of its event (an
                     \* event's identity is its position), and whether the call was
                     \* made before shutdown
  producers,         \* per thread calling a callback or flush(): where it is in
                     \* enqueue / flush ("raised" once a call has raised), its event
  flusher,           \* the flush thread: where it is in _flush_loop, its locals batch
                     \* and last_flush
  clock,             \* time.time(), in units of flush_interval
  batcher,           \* the batcher's _shutdown flag, whether its HTTP client is open,
                     \* and where the caller of shutdown() is
  last_export,       \* what the last export() call of a span exporter returned, and
                     \* whether an exception occurred in it
  pure_call,         \* the last call of a function without state: which function,
                     \* its arguments and what it returned or passed on
  openai_sdk,        \* the openai package: whether it can be imported, and
                     \* completions.Completions.create
  instrumentation,   \* the OpenAIInstrumentation singleton: _is_instrumented and
                     \* _original_create
  instrumented_providers,  \* registry._instrumented_providers
  instrumenters      \* per thread calling auto_instrument(["openai"]), instrument()
                     \* or uninstrument(): where it is, and the method it has read

vars == <<goal, paths, success_when, last_trace_id, last_model_id, last_decision,
          outcome_reported, pc, force_model, decision, trace_id, kwargs, paths_to_try,
          idx, last_exception, decide_status, provider_calls, outcomes, accepted,
          auto_eval, result, report_status, report_args, span_trace_id,
          env, ctor, register_calls,
          threads, singleton, openai_lock, instances, collector, returned, requests,
          capsule, hop_threads, hops_ever,
          batcher_instances, registry_lock, batchers_made, getters, got,
          event_queue, events, producers, flusher, clock, batcher, last_export,
          pure_call, openai_sdk, instrumentation, instrumented_providers, instrumenters>>

constructVars == <<env, ctor, register_calls>>

\* What completion(), report() and add_path() of a constructed router leave alone
serviceVars == <<threads, singleton, openai_lock, instances, collector, returned, requests>>

\* The hop ring and its appenders
capsuleVars == <<capsule, hop_threads, hops_ever>>

\* The registry of shared batchers
registryVars == <<batcher_instances, registry_lock, batchers_made, getters, got>>

\* One batcher's queue, flush thread and callers, and the span exporters
batcherVars == <<event_queue, events, producers, flusher, clock, batcher, last_export>>

\* The functions without state: argument binding in the dispatch, the Anthropic
\* adapter's message conversion, normalize_model_name
pureVars == <<pure_call>>

\* The telemetry side of the library, and the functions without state
\* The instrumentation of the OpenAI SDK and the registry of instrumented providers
instrVars == <<openai_sdk, instrumentation, instrumented_providers, instrumenters>>

telemetryVars == <<capsuleVars, registryVars, batcherVars, pureVars, instrVars>>

outsideRouter == <<constructVars, serviceVars, telemetryVars>>

routerFields == <<goal, paths, success_when, last_trace_id, last_model_id,
                  last_decision, outcome_reported>>

completionLocals == <<force_model, decision, trace_id, kwargs, paths_to_try, idx,
                      last_exception>>

NoException == [type |-> None, path |-> 0]
NoResult == [kind |-> "none"]
NoReportArgs == [success |-> FALSE, reason |-> None, trace_id |-> None]
\* The environment of a configured application, and a finished construction
ConfiguredEnv == [api_key |-> "test-key", tenant_id |-> "test-tenant"]
Constructed == [status |-> "done", auto_register |-> FALSE, idx |-> 0, error |-> None]

(***************************************************************************)
(* The module-level singletons and the threads that call their accessors.  *)
(***************************************************************************)
Threads == 1..NumThreads
SingletonModules == {"intelligence", "openai", "anthropic"}
Accessors == SingletonModules \cup {"collector"}
IdleThread == [pc |-> "idle", op |-> None, tenant |-> None, made |-> 0, client |-> 0,
               calls |-> 0]

\* No thread has called yet, no instance exists
ServicesInit ==
  /\ threads = [t \in Threads |-> IdleThread]
  /\ singleton = [m \in SingletonModules |-> 0]
  /\ openai_lock = 0
  /\ instances = <<>>
  /\ collector = [tracer_provider |-> 0, is_configured |-> FALSE, installed |-> 0]
  /\ returned = [a \in Accessors |-> {}]
  /\ requests = <<>>

\* An empty capsule, no hop appended
CapsuleInit ==
  /\ capsule = [last_n_hops |-> <<>>, aggregate_cost_usd |-> 0, aggregate_latency_ms |-> 0,
                hop_count |-> 0]
  /\ hop_threads = [t \in Threads |-> [appended |-> 0, done |-> FALSE]]
  /\ hops_ever = [count |-> 0, cost_usd |-> 0, duration_ms |-> 0]

\* No batcher exists, no thread is in get_instance
RegistryInit ==
  /\ batcher_instances = <<>>
  /\ registry_lock = 0
  /\ batchers_made = <<>>
  /\ getters = [t \in Threads |-> [pc |-> "idle", endpoint |-> <<>>, api_key |-> <<>>,
                                   key |-> <<>>, calls |-> 0]]
  /\ got = {}

NoExport == [result |-> "none", error |-> FALSE, raised |-> FALSE]
IdleProducer == [pc |-> "idle", event |-> 0, drained |-> <<>>, pending |-> {}]

\* EventBatcher.__init__: an empty queue, an open client, the flush thread started
BatcherInit ==
  /\ event_queue = <<>>
  /\ events = <<>>
  /\ producers = [t \in Threads |-> IdleProducer]
  /\ flusher = [pc |-> "test", batch |-> <<>>, last_flush |-> 0]
  /\ clock = 0
  /\ batcher = [shutdown |-> FALSE, client_open |-> TRUE, closer |-> "none"]
  /\ last_export = NoExport

NoCall == [fn |-> "none"]

\* completions.Completions.create as the SDK defines it
SdkCreate == "Completions.create"
IdleInstrumenter == [pc |-> "idle", op |-> None, read |-> None, success |-> FALSE]

\* The SDK is installed and unpatched, nothing is instrumented
InstrumentationInit ==
  /\ openai_sdk = [installed |-> TRUE, create |-> SdkCreate]
  /\ instrumentation = [is_instrumented |-> FALSE, original_create |-> None]
  /\ instrumented_providers = {}
  /\ instrumenters = [t \in Threads |-> IdleInstrumenter]

TelemetryInit ==
  /\ CapsuleInit
  /\ RegistryInit
  /\ BatcherInit
  /\ pure_call = NoCall
  /\ InstrumentationInit

(***************************************************************************)
(* Router.__init__: the state after construction with a non-empty         *)
(* normalized path list.                                                   *)
(***************************************************************************)
Init ==
  /\ goal = Goal
  /\ paths \in UNION {[1..n -> PathChoices] : n \in 1..MaxPaths}
  /\ success_when \in BOOLEAN
  /\ last_trace_id = None
  /\ last_model_id = None
  /\ last_decision = NoneDict
  /\ outcome_reported = FALSE
  /\ pc = "idle"
  /\ force_model = None
  /\ decision = NoneDict
  /\ trace_id = None
  /\ kwargs = EmptyDict
  /\ paths_to_try = <<>>
  /\ idx = 0
  /\ last_exception = NoException
  /\ decide_status = "not_called"
  /\ provider_calls = <<>>
  /\ outcomes = <<>>
  /\ accepted = FALSE
  /\ auto_eval = "none"
  /\ result = NoResult
  /\ report_status = "none"
  /\ report_args = NoReportArgs
  /\ span_trace_id = 0
  /\ env = ConfiguredEnv
  /\ ctor = Constructed
  /\ register_calls = <<>>
  /\ ServicesInit
  /\ TelemetryInit

(***************************************************************************)
(* completion(), step 1: the routing decision.                             *)
(***************************************************************************)
\* ResolveDecision asking the decision service also when a model is forced
ResolveDecision_DecideAlways(force, dres, ps) ==
  IF ~dres.raises
    THEN [model_id |-> IF Truthy(dres.body.model_id) THEN dres.body.model_id ELSE ps[1].model,
          tool_id |-> dres.body.tool_id, params |-> OrEmpty(dres.body.params),
          decision |-> dres.body, decide_status |-> "returned",
          last_decision |-> dres.body]
    ELSE [model_id |-> ps[1].model, tool_id |-> ps[1].tools, params |-> OrEmpty(ps[1].params),
          decision |-> NoneDict, decide_status |-> "raised",
          last_decision |-> [model_id |-> ps[1].model, fallback |-> TRUE,
                             error |-> "decide failed"]]

\* ResolveDecision whose fallback takes the first path's model but not its tools and params
ResolveDecision_BareFallback(force, dres, ps) ==
  IF Truthy(force)
    THEN [model_id |-> force, tool_id |-> None, params |-> EmptyDict,
          decision |-> NoneDict, decide_status |-> "not_called",
          last_decision |-> [model_id |-> force, forced |-> TRUE]]
    ELSE IF ~dres.raises
      THEN [model_id |-> IF Truthy(dres.body.model_id) THEN dres.body.model_id ELSE ps[1].model,
            tool_id |-> dres.body.tool_id, params |-> OrEmpty(dres.body.params),
            decision |-> dres.body, decide_status |-> "returned",
            last_decision |-> dres.body]
      ELSE [model_id |-> ps[1].model, tool_id |-> None, params |-> EmptyDict,
            decision |-> NoneDict, decide_status |-> "raised",
            last_decision |-> [model_id |-> ps[1].model, fallback |-> TRUE,
                               error |-> "decide failed"]]

ResolveDecision(force, dres, ps) ==
  IF Truthy(force)
    THEN [model_id |-> force, tool_id |-> None, params |-> EmptyDict,
          decision |-> NoneDict, decide_status |-> "not_called",
          last_decision |-> [model_id |-> force, forced |-> TRUE]]
    ELSE IF ~dres.raises
      THEN [model_id |-> IF Truthy(dres.body.model_id) THEN dres.body.model_id ELSE ps[1].model,
            tool_id |-> dres.body.tool_id, params |-> OrEmpty(dres.body.params),
            decision |-> dres.body, decide_status |-> "returned",
            last_decision |-> dres.body]
      ELSE [model_id |-> ps[1].model, tool_id |-> ps[1].tools,
            params |-> OrEmpty(ps[1].params),
            decision |-> NoneDict, decide_status |-> "raised",
            last_decision |-> [model_id |-> ps[1].model, fallback |-> TRUE,
                               error |-> "decide failed"]]

(***************************************************************************)
(* completion(), step 2: the trace id of the call.  fresh stands for       *)
(* uuid.uuid4().hex.                                                       *)
(***************************************************************************)
\* ResolveTraceId ignoring the decision's trace id
ResolveTraceId_AlwaysFresh(ld, fresh) == fresh

ResolveTraceId(ld, fresh) ==
  LET decision_trace_id == IF DictTruthy(ld) THEN Get(ld, "trace_id") ELSE None
  IN IF Truthy(decision_trace_id) THEN decision_trace_id ELSE fresh

(***************************************************************************)
(* completion(), steps 3 and 4: the context carrying the trace id and the  *)
(* routing span started in it.                                             *)
(***************************************************************************)
\* The characters of the trace id strings of the model
HexDigits(s) ==
  CASE s = "a1" -> <<"a", "1">>
    [] s = "f1" -> <<"f", "1">>
    [] s = "e9" -> <<"e", "9">>
    [] s = "b2" -> <<"b", "2">>
    [] s = "00" -> <<"0", "0">>
    [] s = "zz" -> <<"z", "z">>
    [] OTHER -> <<>>

HexDigitValue(c) ==
  CASE c = "0" -> 0 [] c = "1" -> 1 [] c = "2" -> 2 [] c = "3" -> 3
    [] c = "4" -> 4 [] c = "5" -> 5 [] c = "6" -> 6 [] c = "7" -> 7
    [] c = "8" -> 8 [] c = "9" -> 9 [] c = "a" -> 10 [] c = "b" -> 11
    [] c = "c" -> 12 [] c = "d" -> 13 [] c = "e" -> 14 [] c = "f" -> 15
    [] OTHER -> -1

RECURSIVE HexValue(_)
HexValue(digits) ==
  IF digits = <<>> THEN 0
  ELSE 16 * HexValue(SubSeq(digits, 1, Len(digits) - 1))
         + HexDigitValue(digits[Len(digits)])

\* int(trace_id_hex, 16): ok is FALSE where it raises ValueError or TypeError
ParseHex(s) ==
  LET digits == HexDigits(s)
  IN IF digits = <<>> \/ \E i \in 1..Len(digits) : HexDigitValue(digits[i]) = -1
       THEN [ok |-> FALSE, value |-> 0]
       ELSE [ok |-> TRUE, value |-> HexValue(digits)]

NoContext == [remote |-> FALSE, trace_id |-> 0]

\* _create_context_with_trace_id
CreateContextWithTraceId(trace_id_hex) ==
  LET trace_id_int == ParseHex(trace_id_hex)
  IN IF ~trace_id_int.ok THEN NoContext
     ELSE IF trace_id_int.value = 0 THEN NoContext
     ELSE [remote |-> TRUE, trace_id |-> trace_id_int.value]

\* otel_context = _create_context_with_trace_id(trace_id) if trace_id else None
OtelContext(tid) == IF Truthy(tid) THEN CreateContextWithTraceId(tid) ELSE NoContext

\* tracer.start_as_current_span(..., context=otel_context): the span is a child of the
\* context's remote parent and has its trace id; with no context the tracer gives
\* it the trace id tracer_id
RouterSpanTraceId(otel_context, tracer_id) ==
  IF otel_context # NoContext THEN otel_context.trace_id ELSE ParseHex(tracer_id).value

(***************************************************************************)
(* completion(), step 5: the ordered list of paths to try.                 *)
(***************************************************************************)
RECURSIVE AddRemaining(_, _, _)
AddRemaining(ps, to_try, seen_models) ==
  IF ps = <<>> THEN to_try
  ELSE IF Head(ps).model \notin seen_models
    THEN AddRemaining(Tail(ps), Append(to_try, Head(ps)), seen_models \cup {Head(ps).model})
    ELSE AddRemaining(Tail(ps), to_try, seen_models)

\* BuildPathsToTry without the seen_models test: every declared path is appended
BuildPathsToTry_NoDedup(model_id, tool_id, params, ps) ==
  <<Path(model_id, tool_id, params)>> \o ps

BuildPathsToTry(model_id, tool_id, params, ps) ==
  AddRemaining(ps, <<Path(model_id, tool_id, params)>>, {model_id})

\* The keyword arguments _dispatch receives for one path
CallParams(path, kw) == MergeDicts(OrEmpty(path.params), kw)

\* _dispatch: the provider a model id is sent to, by its prefix
Provider(model_id) ==
  CASE model_id = "gpt-4o" -> "openai"
    [] model_id = "claude-3-sonnet" -> "anthropic"
    [] model_id = "gemini-pro" -> "google"
    [] OTHER -> "openai"

\* The error class a failing call raises: each provider SDK has its own
ErrorType(model_id) ==
  CASE Provider(model_id) = "openai" -> "RateLimitError"
    [] Provider(model_id) = "anthropic" -> "APIStatusError"
    [] OTHER -> "ImportError"

\* f"provider_error: {type(e).__name__}"
ProviderErrorReason(type) ==
  CASE type = "RateLimitError" -> "provider_error: RateLimitError"
    [] type = "APIStatusError" -> "provider_error: APIStatusError"
    [] type = "ImportError" -> "provider_error: ImportError"
    [] OTHER -> "provider_error"

(***************************************************************************)
(* Router.report: what one call does, given the router's fields, the       *)
(* arguments and whether report_outcome's request succeeds (net_ok).       *)
(* status: "suppressed" (already reported), "raised" (no trace id),        *)
(* "sent", or "failed" (report_outcome raised, caught and logged).         *)
(***************************************************************************)
\* ReportEffect without the already-reported test
ReportEffect_NoGuard(reported, ltrace, lmodel, g, success, reason, trace_arg, net_ok) ==
  LET tid == IF Truthy(trace_arg) THEN trace_arg ELSE ltrace
      call == [trace_id |-> tid, goal |-> g, success |-> success,
               failure_reason |-> reason, model_id |-> lmodel]
  IN IF ~Truthy(tid)
       THEN [status |-> "raised", reported |-> reported, calls |-> <<>>]
       ELSE IF net_ok
         THEN [status |-> "sent", reported |-> TRUE, calls |-> <<call>>]
         ELSE [status |-> "failed", reported |-> reported, calls |-> <<call>>]

\* ReportEffect without the test for a trace id
ReportEffect_NoTraceTest(reported, ltrace, lmodel, g, success, reason, trace_arg, net_ok) ==
  LET tid == IF Truthy(trace_arg) THEN trace_arg ELSE ltrace
      call == [trace_id |-> tid, goal |-> g, success |-> success,
               failure_reason |-> reason, model_id |-> lmodel]
  IN IF reported
       THEN [status |-> "suppressed", reported |-> reported, calls |-> <<>>]
       ELSE IF net_ok
         THEN [status |-> "sent", reported |-> TRUE, calls |-> <<call>>]
         ELSE [status |-> "failed", reported |-> reported, calls |-> <<call>>]

\* ReportEffect setting the flag whether or not report_outcome raised
ReportEffect_FlagOnFailure(reported, ltrace, lmodel, g, success, reason, trace_arg, net_ok) ==
  LET tid == IF Truthy(trace_arg) THEN trace_arg ELSE ltrace
      call == [trace_id |-> tid, goal |-> g, success |-> success,
               failure_reason |-> reason, model_id |-> lmodel]
  IN IF reported
       THEN [status |-> "suppressed", reported |-> reported, calls |-> <<>>]
       ELSE IF ~Truthy(tid)
         THEN [status |-> "raised", reported |-> reported, calls |-> <<>>]
         ELSE [status |-> IF net_ok THEN "sent" ELSE "failed", reported |-> TRUE,
               calls |-> <<call>>]

ReportEffect(reported, ltrace, lmodel, g, success, reason, trace_arg, net_ok) ==
  LET tid == IF Truthy(trace_arg) THEN trace_arg ELSE ltrace
      call == [trace_id |-> tid, goal |-> g, success |-> success,
               failure_reason |-> reason, model_id |-> lmodel]
  IN IF reported
       THEN [status |-> "suppressed", reported |-> reported, calls |-> <<>>]
       ELSE IF ~Truthy(tid)
         THEN [status |-> "raised", reported |-> reported, calls |-> <<>>]
         ELSE IF net_ok
           THEN [status |-> "sent", reported |-> TRUE, calls |-> <<call>>]
           ELSE [status |-> "failed", reported |-> reported, calls |-> <<call>>]

\* CurrentPath walking the list from its end
CurrentPath_Reversed(to_try, i) == to_try[Len(to_try) + 1 - i]

\* for i, path in enumerate(paths_to_try): the path of iteration i (1-based)
CurrentPath(to_try, i) == to_try[i]

\* LoopDone giving up after the first path
LoopDone_AfterFirst(to_try, i) == i > 1

\* for i, path in enumerate(paths_to_try): the loop is over after the last path
LoopDone(to_try, i) == i > Len(to_try)

\* ServedModel leaving the decided model in place
ServedModel_Stale(current_model, decided_model) == decided_model

\* self._last_model_id = current_model, once the provider call has returned
ServedModel(current_model, decided_model) == current_model

\* NextLastException keeping the first exception instead of the last
NextLastException_KeepFirst(previous, e) == IF previous = NoException THEN e ELSE previous

\* last_exception = e, in the handler of a failed provider call
NextLastException(previous, e) == e

\* ReportedAfterFailure without the reset
ReportedAfterFailure_NoReset(reported) == reported

\* self._outcome_reported = False, after the failure report of a failed path
ReportedAfterFailure(reported) == FALSE

\* ReportedAtStart keeping the flag of the cycle before
ReportedAtStart_Kept(reported) == reported

\* self._outcome_reported = False, at the start of completion()
ReportedAtStart(reported) == FALSE

(***************************************************************************)
(* completion(), from entry up to the attempt loop.                        *)
(***************************************************************************)
CompletionStart(force, dres, kw, fresh, tracer_id) ==
  LET r == ResolveDecision(force, dres, paths)
      tid == ResolveTraceId(r.last_decision, fresh)
  IN /\ pc = "idle"
     /\ outcome_reported' = ReportedAtStart(outcome_reported)
     /\ last_decision' = r.last_decision
     /\ last_trace_id' = tid
     /\ last_model_id' = r.model_id
     /\ force_model' = force
     /\ decision' = r.decision
     /\ trace_id' = tid
     /\ span_trace_id' = RouterSpanTraceId(OtelContext(tid), tracer_id)
     /\ kwargs' = kw
     /\ paths_to_try' = BuildPathsToTry(r.model_id, r.tool_id, r.params, paths)
     /\ idx' = 1
     /\ last_exception' = NoException
     /\ decide_status' = r.decide_status
     /\ provider_calls' = <<>>
     /\ outcomes' = <<>>
     /\ accepted' = FALSE
     /\ auto_eval' = "none"
     /\ result' = NoResult
     /\ report_status' = "none"
     /\ report_args' = NoReportArgs
     /\ pc' = "dispatching"
     /\ UNCHANGED <<goal, paths, success_when, outsideRouter>>

(***************************************************************************)
(* completion(), one iteration of the attempt loop whose provider call     *)
(* returns a response: record the serving model, auto-report when a        *)
(* success predicate is configured (pred is what evaluating it does),      *)
(* attach the trace id and return.                                         *)
(***************************************************************************)
AttemptSucceeds(pred, net_ok) ==
  /\ pc = "dispatching"
  /\ ~LoopDone(paths_to_try, idx)
  /\ LET path == CurrentPath(paths_to_try, idx)
         call == [model |-> path.model, tools |-> path.tools,
                  params |-> CallParams(path, kwargs), ok |-> TRUE,
                  error |-> NoException]
         served == ServedModel(path.model, last_model_id)
         evaluated == success_when /\ ~outcome_reported
         rep == ReportEffect(outcome_reported, last_trace_id, served, goal,
                             pred = "true", None, None, net_ok)
     IN /\ provider_calls' = Append(provider_calls, call)
        /\ last_model_id' = served
        /\ auto_eval' = IF evaluated THEN pred ELSE "none"
        /\ IF evaluated /\ pred # "raise"
             THEN /\ outcome_reported' = rep.reported
                  /\ outcomes' = outcomes \o rep.calls
                  /\ accepted' = (accepted \/ rep.status = "sent")
             ELSE UNCHANGED <<outcome_reported, outcomes, accepted>>
        /\ result' = [kind |-> "response", model |-> path.model,
                      kalibr_trace_id |-> trace_id,
                      attempts |-> Len(provider_calls) + 1]
        /\ pc' = "idle"
        /\ UNCHANGED <<goal, paths, success_when, last_trace_id, last_decision,
                       completionLocals, decide_status, report_status, report_args,
                       span_trace_id, outsideRouter>>

(***************************************************************************)
(* completion(), one iteration of the attempt loop whose provider call     *)
(* raises: report a failure outcome, reset the reported flag and go on     *)
(* with the next path.                                                     *)
(***************************************************************************)
AttemptFails(net_ok) ==
  /\ pc = "dispatching"
  /\ ~LoopDone(paths_to_try, idx)
  /\ LET path == CurrentPath(paths_to_try, idx)
         e == [type |-> ErrorType(path.model), path |-> idx]
         call == [model |-> path.model, tools |-> path.tools,
                  params |-> CallParams(path, kwargs), ok |-> FALSE, error |-> e]
         rep == ReportEffect(outcome_reported, last_trace_id, last_model_id, goal,
                             FALSE, ProviderErrorReason(e.type), None, net_ok)
     IN /\ provider_calls' = Append(provider_calls, call)
        /\ last_exception' = NextLastException(last_exception, e)
        /\ outcomes' = outcomes \o rep.calls
        /\ accepted' = (accepted \/ rep.status = "sent")
        /\ outcome_reported' = ReportedAfterFailure(rep.reported)
        /\ idx' = idx + 1
        /\ UNCHANGED <<goal, paths, success_when, last_trace_id, last_model_id,
                       last_decision, pc, force_model, decision, trace_id, kwargs,
                       paths_to_try, decide_status, auto_eval, result, report_status,
                       report_args, span_trace_id, outsideRouter>>

(***************************************************************************)
(* completion(), after the attempt loop: every path failed, the last       *)
(* exception is raised to the caller.                                      *)
(***************************************************************************)
CompletionRaises ==
  /\ pc = "dispatching"
  /\ LoopDone(paths_to_try, idx)
  /\ result' = [kind |-> "raised", exception |-> last_exception,
                attempts |-> Len(provider_calls)]
  /\ pc' = "idle"
  /\ UNCHANGED <<routerFields, completionLocals, decide_status, provider_calls,
                 outcomes, accepted, auto_eval, report_status, report_args,
                 span_trace_id, outsideRouter>>

\* The frame of the finished completion() is gone once the application calls again
DiscardFrame ==
  /\ force_model' = None
  /\ decision' = NoneDict
  /\ trace_id' = None
  /\ kwargs' = EmptyDict
  /\ paths_to_try' = <<>>
  /\ idx' = 0
  /\ last_exception' = NoException
  /\ decide_status' = "not_called"
  /\ provider_calls' = <<>>
  /\ auto_eval' = "none"

(***************************************************************************)
(* Router.report, called by the application.                               *)
(***************************************************************************)
Report(args, net_ok) ==
  LET rep == ReportEffect(outcome_reported, last_trace_id, last_model_id, goal,
                          args.success, args.reason, args.trace_id, net_ok)
  IN /\ pc = "idle"
     /\ IF DOMAIN args \subseteq ReportParameters
          THEN /\ outcome_reported \/ Len(outcomes) < MaxReports
               /\ outcome_reported' = rep.reported
               /\ outcomes' = outcomes \o rep.calls
               /\ accepted' = (accepted \/ rep.status = "sent")
               /\ report_status' = rep.status
          ELSE \* TypeError: report() got an unexpected keyword argument
               /\ report_status' = "type_error"
               /\ UNCHANGED <<outcome_reported, outcomes, accepted>>
     /\ report_args' = args
     /\ DiscardFrame
     /\ UNCHANGED <<goal, paths, success_when, last_trace_id, last_model_id,
                    last_decision, pc, result, span_trace_id, outsideRouter>>

\* AppendPath putting the new path first
AppendPath_First(ps, path) == <<path>> \o ps

\* self._paths.append(path)
AppendPath(ps, path) == Append(ps, path)

(***************************************************************************)
(* Router.add_path.                                                        *)
(***************************************************************************)
AddPath(model, tools, params) ==
  /\ pc = "idle"
  /\ Len(paths) < MaxPaths
  /\ paths' = AppendPath(paths, Path(model, tools, params))
  /\ DiscardFrame
  /\ UNCHANGED <<goal, success_when, last_trace_id, last_model_id, last_decision,
                 outcome_reported, pc, outcomes, accepted, result, report_status,
                 report_args, span_trace_id, outsideRouter>>

Next ==
  \/ \E force \in ForceChoices \ {None}, kw \in KwargChoices, fresh \in FreshTraceIds,
          tracer_id \in TracerTraceIds :
        CompletionStart(force, NotCalled, kw, fresh, tracer_id)
  \/ \E dres \in DecideResults, kw \in KwargChoices, fresh \in FreshTraceIds,
          tracer_id \in TracerTraceIds :
        CompletionStart(None, dres, kw, fresh, tracer_id)
  \/ \E pred \in PredicateResults, net_ok \in BOOLEAN : AttemptSucceeds(pred, net_ok)
  \/ \E net_ok \in BOOLEAN : AttemptFails(net_ok)
  \/ CompletionRaises
  \/ \E args \in ReportArgs, net_ok \in BOOLEAN : Report(args, net_ok)
  \/ \E p \in PathChoices : AddPath(p.model, p.tools, p.params)

Spec == Init /\ [][Next]_vars

\* The router under its wider inputs: a decision service whose trace ids need not be
\* usable, and report() calls that pass a failure_category (the callers pass no
\* keyword arguments to completion())
NextWide ==
  \/ \E force \in ForceChoices \ {None}, kw \in {EmptyDict}, fresh \in FreshTraceIds,
          tracer_id \in TracerTraceIds :
        CompletionStart(force, NotCalled, kw, fresh, tracer_id)
  \/ \E dres \in TraceDecideResults, kw \in {EmptyDict}, fresh \in FreshTraceIds,
          tracer_id \in TracerTraceIds :
        CompletionStart(None, dres, kw, fresh, tracer_id)
  \/ \E pred \in PredicateResults, net_ok \in BOOLEAN : AttemptSucceeds(pred, net_ok)
  \/ \E net_ok \in BOOLEAN : AttemptFails(net_ok)
  \/ CompletionRaises
  \/ \E args \in ReportArgs \cup CategoryReportArgs, net_ok \in BOOLEAN : Report(args, net_ok)
  \/ \E p \in PathChoices : AddPath(p.model, p.tools, p.params)

SpecWide == Init /\ [][NextWide]_vars

(***************************************************************************)
(* Router.__init__, with _normalize_paths and _register_paths.             *)
(***************************************************************************)
\* What os.environ.get gives for the two variables: unset, empty, or a value
EnvChoices ==
  {[api_key |-> a, tenant_id |-> t] : a \in {None, "", "test-key"},
                                      t \in {None, "", "test-tenant"}}

\* A path spec as the caller writes it: a model name, a dict, or something else
RawStr(m) == [kind |-> "str", spec |-> [model |-> m]]
RawDict(d) == [kind |-> "dict", spec |-> d]
RawOther == [kind |-> "other", spec |-> EmptyDict]
RawPathChoices ==
  {RawStr("gpt-4o"), RawStr("claude-3-sonnet"),
   RawDict([model |-> "gpt-4o", tools |-> "search", params |-> [temperature |-> 1]]),
   RawDict([model_id |-> "claude-3-sonnet", tool_id |-> "calendar"]),
   RawOther}
RawPathLists == UNION {[1..n -> RawPathChoices] : n \in 0..MaxPaths}

\* p.get(a) or p.get(b), for string values
GetOr(d, a, b) == IF Truthy(Get(d, a)) THEN Get(d, a) ELSE Get(d, b)
\* p.get("params")
GetParams(d) == IF "params" \in DOMAIN d THEN d.params ELSE NoneDict

\* _normalize_paths, one spec
NormalizePath(p) ==
  IF p.kind = "str" THEN Path(p.spec.model, None, NoneDict)
  ELSE Path(GetOr(p.spec, "model", "model_id"), GetOr(p.spec, "tools", "tool_id"),
            GetParams(p.spec))

\* _normalize_paths(paths or ["gpt-4o"])
NormalizePaths(raw) ==
  LET given == IF raw = <<>> THEN <<RawStr("gpt-4o")>> ELSE raw
  IN [i \in 1..Len(given) |-> NormalizePath(given[i])]

\* CredentialsMissing looking at the API key only
CredentialsMissing_ApiKeyOnly(e) == ~Truthy(e.api_key)

\* if not api_key: raise ...; if not tenant_id: raise ...
CredentialsMissing(e) == ~Truthy(e.api_key) \/ ~Truthy(e.tenant_id)

InitConstruct ==
  /\ goal = None
  /\ paths = <<>>
  /\ success_when = FALSE
  /\ last_trace_id = None
  /\ last_model_id = None
  /\ last_decision = NoneDict
  /\ outcome_reported = FALSE
  /\ pc = "idle"
  /\ force_model = None
  /\ decision = NoneDict
  /\ trace_id = None
  /\ kwargs = EmptyDict
  /\ paths_to_try = <<>>
  /\ idx = 0
  /\ last_exception = NoException
  /\ decide_status = "not_called"
  /\ provider_calls = <<>>
  /\ outcomes = <<>>
  /\ accepted = FALSE
  /\ auto_eval = "none"
  /\ result = NoResult
  /\ report_status = "none"
  /\ report_args = NoReportArgs
  /\ span_trace_id = 0
  /\ env \in EnvChoices
  /\ ctor = [status |-> "pending", auto_register |-> FALSE, idx |-> 0, error |-> None]
  /\ register_calls = <<>>
  /\ ServicesInit
  /\ TelemetryInit

\* Router(goal, paths=raw, success_when=..., auto_register=auto_reg), up to the
\* call of _register_paths
Construct(raw, sw, auto_reg) ==
  /\ ctor.status = "pending"
  /\ goal' = Goal
  /\ IF CredentialsMissing(env)
       THEN /\ ctor' = [status |-> "raised", auto_register |-> auto_reg, idx |-> 0,
                        error |-> "credentials"]
            /\ UNCHANGED <<success_when, paths>>
       ELSE IF \E i \in 1..Len(raw) : raw[i].kind = "other"
         THEN /\ success_when' = sw
              /\ ctor' = [status |-> "raised", auto_register |-> auto_reg, idx |-> 0,
                          error |-> "path_spec"]
              /\ UNCHANGED paths
         ELSE /\ success_when' = sw
              /\ paths' = NormalizePaths(raw)
              /\ ctor' = [status |-> IF auto_reg THEN "registering" ELSE "done",
                          auto_register |-> auto_reg,
                          idx |-> IF auto_reg THEN 1 ELSE 0, error |-> None]
  /\ UNCHANGED <<last_trace_id, last_model_id, last_decision, outcome_reported, pc,
                 completionLocals, decide_status, provider_calls, outcomes, accepted,
                 auto_eval, result, report_status, report_args, span_trace_id, env,
                 register_calls, serviceVars, telemetryVars>>

\* _register_paths, one iteration: the request is made, its failure is logged only
RegisterPath(net_ok) ==
  /\ ctor.status = "registering"
  /\ register_calls' = Append(register_calls,
                              [goal |-> goal, model_id |-> paths[ctor.idx].model,
                               tool_id |-> paths[ctor.idx].tools,
                               params |-> paths[ctor.idx].params, ok |-> net_ok])
  /\ ctor' = [ctor EXCEPT !.idx = IF ctor.idx = Len(paths) THEN 0 ELSE ctor.idx + 1,
                          !.status = IF ctor.idx = Len(paths) THEN "done"
                                     ELSE "registering"]
  /\ UNCHANGED <<routerFields, pc, completionLocals, decide_status, provider_calls,
                 outcomes, accepted, auto_eval, result, report_status, report_args,
                 span_trace_id, env, serviceVars, telemetryVars>>

NextConstruct ==
  \/ \E raw \in RawPathLists, sw \in BOOLEAN, auto_reg \in BOOLEAN :
        Construct(raw, sw, auto_reg)
  \/ \E net_ok \in BOOLEAN : RegisterPath(net_ok)

SpecConstruct == InitConstruct /\ [][NextConstruct]_vars

(***************************************************************************)
(* The module-level accessors, one step per read or write of shared state: *)
(* intelligence._get_intelligence_client, openai_instr.get_instrumentation *)
(* (double-checked locking), anthropic_instr.get_instrumentation,          *)
(* collector.setup_collector, and the convenience functions                *)
(* intelligence.get_policy and intelligence.report_outcome.                *)
(***************************************************************************)
AccessorOps == {"_get_intelligence_client", "openai.get_instrumentation",
                "anthropic.get_instrumentation"}
ConvenienceOps == {"get_policy", "report_outcome"}
\* The tenant_id argument of a convenience call
TenantChoices == {None, "tenant-123"}

\* The singleton a function reads
ModuleOf(op) ==
  CASE op = "openai.get_instrumentation" -> "openai"
    [] op = "anthropic.get_instrumentation" -> "anthropic"
    [] OTHER -> "intelligence"

\* Which accessor takes a lock around a second check
HasLock(m) == m = "openai"

\* What the router and its construction are, to the accessors
outsideServices ==
  <<routerFields, pc, completionLocals, decide_status, provider_calls, outcomes, accepted,
    auto_eval, result, report_status, report_args, span_trace_id, constructVars,
    telemetryVars>>

NewInstance(kind, tenant, t) ==
  [kind |-> kind, tenant |-> tenant, open |-> kind \in {"intelligence", "dedicated"},
   by |-> [thread |-> t, op |-> threads[t].op, tenant |-> threads[t].tenant]]

\* A thread calls a function that begins with: if <singleton> is None
AccessorCheck(t, op, tenant) ==
  /\ threads[t].pc = "idle"
  /\ threads[t].calls < MaxCalls
  /\ threads' = [threads EXCEPT ![t] =
        [pc |-> IF singleton[ModuleOf(op)] # 0 THEN "return"
                ELSE IF HasLock(ModuleOf(op)) THEN "lock" ELSE "construct",
         op |-> op, tenant |-> tenant, made |-> 0, client |-> 0, calls |-> @.calls + 1]]
  /\ UNCHANGED <<singleton, openai_lock, instances, collector, returned, requests,
                 outsideServices>>

\* with _openai_lock:
AcquireLock(t) ==
  /\ threads[t].pc = "lock"
  /\ openai_lock = 0
  /\ openai_lock' = t
  /\ threads' = [threads EXCEPT ![t].pc = "recheck"]
  /\ UNCHANGED <<singleton, instances, collector, returned, requests, outsideServices>>

\* the second check, inside the lock
Recheck(t) ==
  /\ threads[t].pc = "recheck"
  /\ threads' = [threads EXCEPT ![t].pc =
        IF singleton[ModuleOf(threads[t].op)] = 0 THEN "construct" ELSE "unlock"]
  /\ UNCHANGED <<singleton, openai_lock, instances, collector, returned, requests,
                 outsideServices>>

\* KalibrIntelligence(), OpenAIInstrumentation(), AnthropicInstrumentation()
ConstructSingleton(t) ==
  /\ threads[t].pc = "construct"
  /\ instances' = Append(instances, NewInstance(ModuleOf(threads[t].op), None, t))
  /\ threads' = [threads EXCEPT ![t].pc = "store", ![t].made = Len(instances) + 1]
  /\ UNCHANGED <<singleton, openai_lock, collector, returned, requests, outsideServices>>

\* <singleton> = the new object
StoreSingleton(t) ==
  /\ threads[t].pc = "store"
  /\ singleton' = [singleton EXCEPT ![ModuleOf(threads[t].op)] = threads[t].made]
  /\ threads' = [threads EXCEPT ![t].pc =
        IF HasLock(ModuleOf(threads[t].op)) THEN "unlock" ELSE "return"]
  /\ UNCHANGED <<openai_lock, instances, collector, returned, requests, outsideServices>>

\* leaving the with block
ReleaseLock(t) ==
  /\ threads[t].pc = "unlock"
  /\ openai_lock' = 0
  /\ threads' = [threads EXCEPT ![t].pc = "return"]
  /\ UNCHANGED <<singleton, instances, collector, returned, requests, outsideServices>>

\* return <singleton>; in a convenience function the result is its local client
AccessorReturn(t) ==
  /\ threads[t].pc = "return"
  /\ returned' = [returned EXCEPT ![ModuleOf(threads[t].op)] =
                    @ \cup {singleton[ModuleOf(threads[t].op)]}]
  /\ threads' = [threads EXCEPT ![t].pc = IF threads[t].op \in ConvenienceOps
                                            THEN "tenant" ELSE "idle",
                                ![t].client = IF threads[t].op \in ConvenienceOps
                                                THEN singleton[ModuleOf(threads[t].op)]
                                                ELSE 0]
  /\ UNCHANGED <<singleton, openai_lock, instances, collector, requests, outsideServices>>

\* if tenant_id: client = KalibrIntelligence(tenant_id=tenant_id)
DedicatedClient(t) ==
  /\ threads[t].pc = "tenant"
  /\ IF Truthy(threads[t].tenant)
       THEN /\ instances' = Append(instances, NewInstance("dedicated", threads[t].tenant, t))
            /\ threads' = [threads EXCEPT ![t].pc = "request",
                                          ![t].client = Len(instances) + 1]
       ELSE /\ threads' = [threads EXCEPT ![t].pc = "request"]
            /\ UNCHANGED instances
  /\ UNCHANGED <<singleton, openai_lock, collector, returned, requests, outsideServices>>

\* return client.get_policy(...) / client.report_outcome(...): the request returns
\* or raises, and so does the function
Request(t, net_ok) ==
  /\ threads[t].pc = "request"
  /\ requests' = Append(requests, [client |-> threads[t].client, op |-> threads[t].op,
                                   tenant_id |-> threads[t].tenant,
                                   ok |-> net_ok])
  /\ threads' = [threads EXCEPT ![t].pc = "idle"]
  /\ UNCHANGED <<singleton, openai_lock, instances, collector, returned, outsideServices>>

\* setup_collector: if _is_configured and _tracer_provider: return _tracer_provider
CollectorCheck(t) ==
  /\ threads[t].pc = "idle"
  /\ threads[t].calls < MaxCalls
  /\ IF collector.is_configured /\ collector.tracer_provider # 0
       THEN /\ returned' = [returned EXCEPT !["collector"] = @ \cup {collector.tracer_provider}]
            /\ threads' = [threads EXCEPT ![t] =
                  [pc |-> "idle", op |-> "setup_collector", tenant |-> None, made |-> 0,
                   client |-> 0, calls |-> @.calls + 1]]
       ELSE /\ threads' = [threads EXCEPT ![t] =
                  [pc |-> "col_create", op |-> "setup_collector", tenant |-> None,
                   made |-> 0, client |-> 0, calls |-> @.calls + 1]]
            /\ UNCHANGED returned
  /\ UNCHANGED <<singleton, openai_lock, instances, collector, requests, outsideServices>>

\* provider = TracerProvider(resource=resource), and its span processors
CollectorCreate(t) ==
  /\ threads[t].pc = "col_create"
  /\ instances' = Append(instances, NewInstance("provider", None, t))
  /\ threads' = [threads EXCEPT ![t].pc = "col_install", ![t].made = Len(instances) + 1]
  /\ UNCHANGED <<singleton, openai_lock, collector, returned, requests, outsideServices>>

\* trace.set_tracer_provider(provider): the global provider can be set once
CollectorInstall(t) ==
  /\ threads[t].pc = "col_install"
  /\ collector' = [collector EXCEPT !.installed = IF @ = 0 THEN threads[t].made ELSE @]
  /\ threads' = [threads EXCEPT ![t].pc = "col_store"]
  /\ UNCHANGED <<singleton, openai_lock, instances, returned, requests, outsideServices>>

\* _tracer_provider = provider
CollectorStore(t) ==
  /\ threads[t].pc = "col_store"
  /\ collector' = [collector EXCEPT !.tracer_provider = threads[t].made]
  /\ threads' = [threads EXCEPT ![t].pc = "col_flag"]
  /\ UNCHANGED <<singleton, openai_lock, instances, returned, requests, outsideServices>>

\* _is_configured = True; return provider
CollectorConfigured(t) ==
  /\ threads[t].pc = "col_flag"
  /\ collector' = [collector EXCEPT !.is_configured = TRUE]
  /\ returned' = [returned EXCEPT !["collector"] = @ \cup {threads[t].made}]
  /\ threads' = [threads EXCEPT ![t].pc = "idle"]
  /\ UNCHANGED <<singleton, openai_lock, instances, requests, outsideServices>>

NextServices ==
  \E t \in Threads :
    \/ \E op \in AccessorOps : AccessorCheck(t, op, None)
    \/ \E op \in ConvenienceOps, tenant \in TenantChoices : AccessorCheck(t, op, tenant)
    \/ AcquireLock(t)
    \/ Recheck(t)
    \/ ConstructSingleton(t)
    \/ StoreSingleton(t)
    \/ ReleaseLock(t)
    \/ AccessorReturn(t)
    \/ DedicatedClient(t)
    \/ \E net_ok \in BOOLEAN : Request(t, net_ok)
    \/ CollectorCheck(t)
    \/ CollectorCreate(t)
    \/ CollectorInstall(t)
    \/ CollectorStore(t)
    \/ CollectorConfigured(t)

\* The accessors are called from the threads of an application whose router stays idle
InitServices ==
  /\ Init
  /\ paths = <<Path("gpt-4o", None, NoneDict)>>
  /\ success_when = FALSE

SpecServices == InitServices /\ [][NextServices]_vars

(***************************************************************************)
(* The hop ring (TraceCapsule.append_hop), appended to by several threads.  *)
(* An append is one step: the index assignment, the ring update and the     *)
(* aggregate update are done together.                                      *)
(***************************************************************************)
\* What the library's router and module-level accessors are, to its telemetry
outsideTelemetry ==
  <<routerFields, pc, completionLocals, decide_status, provider_calls, outcomes, accepted,
    auto_eval, result, report_status, report_args, span_trace_id, constructVars,
    serviceVars>>

outsideCapsule == <<outsideTelemetry, registryVars, batcherVars, pureVars, instrVars>>

\* The cost_usd (hundredths of a dollar) and the duration_ms a hop may carry
HopCosts == {0, 1}
HopDurations == {100}

\* NextHopIndex from the current length of the ring
NextHopIndex_RingLength(c) == Len(c.last_n_hops)

\* The index given to the next hop: the number of hops appended before it
NextHopIndex(c) == c.hop_count

\* The ring after one more hop: the oldest is evicted beyond MaxHops
RingAppend(ring, hop) ==
  LET all == Append(ring, hop)
  IN IF Len(all) > MaxHops THEN SubSeq(all, Len(all) - MaxHops + 1, Len(all)) ELSE all

\* capsule.append_hop(hop) by thread t
AppendHop(t, cost, duration) ==
  /\ ~hop_threads[t].done
  /\ hop_threads[t].appended < HopsPerThread
  /\ LET hop == [hop_index |-> NextHopIndex(capsule), cost_usd |-> cost,
                 duration_ms |-> duration]
     IN capsule' = [last_n_hops |-> RingAppend(capsule.last_n_hops, hop),
                    aggregate_cost_usd |-> capsule.aggregate_cost_usd + cost,
                    aggregate_latency_ms |-> capsule.aggregate_latency_ms + duration,
                    hop_count |-> capsule.hop_count + 1]
  /\ hop_threads' = [hop_threads EXCEPT ![t].appended = @ + 1]
  /\ hops_ever' = [count |-> hops_ever.count + 1, cost_usd |-> hops_ever.cost_usd + cost,
                   duration_ms |-> hops_ever.duration_ms + duration]
  /\ UNCHANGED outsideCapsule

\* Thread t has appended its hops and completes
AppenderCompletes(t) ==
  /\ ~hop_threads[t].done
  /\ hop_threads[t].appended >= 1
  /\ hop_threads' = [hop_threads EXCEPT ![t].done = TRUE]
  /\ UNCHANGED <<capsule, hops_ever, outsideCapsule>>

NextCapsule ==
  \E t \in Threads :
    \/ \E cost \in HopCosts, duration \in HopDurations : AppendHop(t, cost, duration)
    \/ AppenderCompletes(t)

\* The capsule is used by the threads of an application whose router stays idle
InitCapsule ==
  /\ Init
  /\ paths = <<Path("gpt-4o", None, NoneDict)>>
  /\ success_when = FALSE

SpecCapsule == InitCapsule /\ [][NextCapsule]_vars

(***************************************************************************)
(* EventBatcher.get_instance: the shared batchers, keyed by the string      *)
(* f"{endpoint}:{api_key}".  A string is the sequence of its pieces, and    *)
(* formatting the key concatenates them.                                    *)
(***************************************************************************)
outsideRegistry == <<outsideTelemetry, capsuleVars, batcherVars, pureVars, instrVars>>

\* The endpoint and api_key arguments of the calls
Endpoints == {<<"http://h">>, <<"http://h", ":", "8080">>}
ApiKeys == {<<"k1">>, <<"8080", ":", "k1">>}

\* key = f"{endpoint}:{api_key}"
InstanceKey(endpoint, api_key) == endpoint \o <<":">> \o api_key

\* get_instance(endpoint, api_key) by thread t: with cls._lock
GetInstanceLock(t, endpoint, api_key) ==
  /\ getters[t].pc = "idle"
  /\ getters[t].calls < MaxGets
  /\ registry_lock = 0
  /\ registry_lock' = t
  /\ getters' = [getters EXCEPT ![t] = [pc |-> "locked", endpoint |-> endpoint,
                                        api_key |-> api_key,
                                        key |-> InstanceKey(endpoint, api_key),
                                        calls |-> @.calls + 1]]
  /\ UNCHANGED <<batcher_instances, batchers_made, got, outsideRegistry>>

\* inside the lock: if key not in cls._instances: cls._instances[key] = cls(...);
\* return cls._instances[key]
GetInstanceBody(t) ==
  /\ getters[t].pc = "locked"
  /\ LET key == getters[t].key
         known == key \in DOMAIN batcher_instances
         instance == IF known THEN batcher_instances[key] ELSE Len(batchers_made) + 1
     IN /\ batchers_made' =
             IF known THEN batchers_made
             ELSE Append(batchers_made, [endpoint |-> getters[t].endpoint,
                                         api_key |-> getters[t].api_key])
        /\ batcher_instances' =
             IF known THEN batcher_instances
             ELSE [k \in DOMAIN batcher_instances \cup {key} |->
                     IF k = key THEN instance ELSE batcher_instances[k]]
        /\ got' = got \cup {[endpoint |-> getters[t].endpoint,
                              api_key |-> getters[t].api_key, instance |-> instance]}
  /\ registry_lock' = 0
  /\ getters' = [getters EXCEPT ![t].pc = "idle"]
  /\ UNCHANGED outsideRegistry

NextRegistry ==
  \E t \in Threads :
    \/ \E endpoint \in Endpoints, api_key \in ApiKeys : GetInstanceLock(t, endpoint, api_key)
    \/ GetInstanceBody(t)

InitRegistry ==
  /\ Init
  /\ paths = <<Path("gpt-4o", None, NoneDict)>>
  /\ success_when = FALSE

SpecRegistry == InitRegistry /\ [][NextRegistry]_vars

(***************************************************************************)
(* One EventBatcher: the callbacks that enqueue events (KalibrAgentCallback *)
(* and KalibrTaskCallback __call__), enqueue, flush, the flush thread's     *)
(* _flush_loop and _send_batch, shutdown; and the span exporters' export.   *)
(* Every read or write of the queue or of the _shutdown flag is one step.   *)
(***************************************************************************)
outsideBatcher == <<outsideTelemetry, capsuleVars, registryVars, pureVars, instrVars>>

\* queue.Queue(maxsize): put_nowait raises Full at this length
QueueFull(q) == Len(q) >= QueueCapacity

\* enqueue's inner handler with "except queue.Empty" in place of the bare except
InnerHandlerCatches_EmptyOnly(exc) == exc = "Empty"

\* enqueue's inner handler (a bare except) catches whatever the second attempt raises
InnerHandlerCatches(exc) == TRUE

\* _send_batch with no handler around the post
SendBatchCatches_None(exc) == FALSE

\* _send_batch: except Exception around building and posting the payload
SendBatchCatches(exc) == exc \in {"network_error", "client_closed"}

\* _flush_loop: except Exception around one iteration
LoopCatches(exc) == exc \in {"network_error", "client_closed"}

\* The callbacks' __call__: except Exception around the handler
CallbackCatches(exc) == exc \in {"processing_error", "Full", "Empty"}

\* The exporters' export: except Exception around converting and sending
ExportCatches(exc) == exc \in {"io_error", "network_error", "convert_error"}

\* should_flush with the size test only
ShouldFlush_SizeOnly(batch, now, last_flush) == Len(batch) >= BatchSize

\* _flush_loop: should_flush
ShouldFlush(batch, now, last_flush) ==
  \/ Len(batch) >= BatchSize
  \/ (batch # <<>> /\ now - last_flush >= FlushInterval)

SetStatus(evs, ids, st) ==
  [e \in DOMAIN evs |-> IF e \in ids THEN [evs[e] EXCEPT !.status = st] ELSE evs[e]]

Elements(seq) == {seq[i] : i \in DOMAIN seq}

\* Event e has been put in the queue, before or after shutdown() was called
Queued(evs, e) ==
  [evs EXCEPT ![e].status = "queued", ![e].before_shutdown = ~batcher.shutdown]

\* What becomes of the event whose second attempt raised exc: enqueue swallows
\* the exception and returns without it, or the exception leaves enqueue
LostStatus(exc) == IF InnerHandlerCatches(exc) THEN "lost" ELSE "lost_raising"

\* Where a thread is after enqueue: back in the application, or at the exception
\* that neither enqueue nor __call__ caught
AfterEnqueue(raised, exc) == IF raised /\ ~CallbackCatches(exc) THEN "raised" ELSE "idle"

\* _send_batch with a non-empty batch: whether the post's exception gets out of it
SendRaises(net_ok) ==
  IF ~batcher.client_open THEN ~SendBatchCatches("client_closed")
  ELSE IF net_ok THEN FALSE ELSE ~SendBatchCatches("network_error")

\* What becomes of the events of a batch that is sent
PostedStatus(net_ok) == IF batcher.client_open /\ net_ok THEN "posted" ELSE "post_failed"

\* The event a callback call makes: not yet queued, passed to no send
NewEvent(st) == [status |-> st, before_shutdown |-> FALSE, sends |-> 0]

\* self._client.post(self.endpoint, json={"events": batch}): every event of the
\* batch is passed to a send, once for each time the batch holds it
SendBatch(evs, batch, net_ok) ==
  [e \in DOMAIN evs |->
     IF e \in Elements(batch)
       THEN [evs[e] EXCEPT !.status = PostedStatus(net_ok),
                           !.sends = @ + Cardinality({i \in DOMAIN batch : batch[i] = e})]
       ELSE evs[e]]

\* BatchAfterSend keeping the events that were sent
BatchAfterSend_Kept(batch) == batch

\* _flush_loop: batch = [], after _send_batch(batch)
BatchAfterSend(batch) == <<>>

\* The events that wait to be sent: in the queue, in the flush thread's batch, or
\* drained by a flush() that has not sent them yet
Pending(evs) == {e \in DOMAIN evs : evs[e].status \in {"queued", "batched", "drained"}}

\* __call__ by thread t, its handler building an event and calling enqueue
CallbackBuilds(t) ==
  /\ producers[t].pc = "idle"
  /\ Len(events) < MaxEvents
  /\ events' = Append(events, NewEvent("built"))
  /\ producers' = [producers EXCEPT ![t].pc = "put", ![t].event = Len(events) + 1]
  /\ UNCHANGED <<event_queue, flusher, clock, batcher, last_export, outsideBatcher>>

\* __call__ by thread t, its handler raising before it calls enqueue
CallbackHandlerRaises(t) ==
  /\ producers[t].pc = "idle"
  /\ Len(events) < MaxEvents
  /\ events' = Append(events, NewEvent("handler_error"))
  /\ producers' = [producers EXCEPT ![t].pc = IF CallbackCatches("processing_error")
                                                THEN "idle" ELSE "raised"]
  /\ UNCHANGED <<event_queue, flusher, clock, batcher, last_export, outsideBatcher>>

\* enqueue: self._event_queue.put_nowait(event), and except queue.Full
EnqueuePut(t) ==
  /\ producers[t].pc = "put"
  /\ IF ~QueueFull(event_queue)
       THEN /\ event_queue' = Append(event_queue, producers[t].event)
            /\ events' = Queued(events, producers[t].event)
            /\ producers' = [producers EXCEPT ![t].pc = "idle"]
       ELSE /\ producers' = [producers EXCEPT ![t].pc = "drop"]
            /\ UNCHANGED <<event_queue, events>>
  /\ UNCHANGED <<flusher, clock, batcher, last_export, outsideBatcher>>

\* enqueue, in the handler: self._event_queue.get_nowait()
EnqueueDrop(t) ==
  /\ producers[t].pc = "drop"
  /\ IF event_queue # <<>>
       THEN /\ event_queue' = Tail(event_queue)
            /\ events' = SetStatus(events, {Head(event_queue)}, "discarded")
            /\ producers' = [producers EXCEPT ![t].pc = "retry"]
       ELSE /\ events' = SetStatus(events, {producers[t].event}, LostStatus("Empty"))
            /\ producers' = [producers EXCEPT ![t].pc =
                  AfterEnqueue(~InnerHandlerCatches("Empty"), "Empty")]
            /\ UNCHANGED event_queue
  /\ UNCHANGED <<flusher, clock, batcher, last_export, outsideBatcher>>

\* enqueue, in the handler: self._event_queue.put_nowait(event) again
EnqueueRetry(t) ==
  /\ producers[t].pc = "retry"
  /\ IF ~QueueFull(event_queue)
       THEN /\ event_queue' = Append(event_queue, producers[t].event)
            /\ events' = Queued(events, producers[t].event)
            /\ producers' = [producers EXCEPT ![t].pc = "idle"]
       ELSE /\ events' = SetStatus(events, {producers[t].event}, LostStatus("Full"))
            /\ producers' = [producers EXCEPT ![t].pc =
                  AfterEnqueue(~InnerHandlerCatches("Full"), "Full")]
            /\ UNCHANGED event_queue
  /\ UNCHANGED <<flusher, clock, batcher, last_export, outsideBatcher>>

\* flush() called by thread t (on the batcher, or through a callback's flush()), the
\* queue holding an event: the first get_nowait; pending holds the events that
\* wait to be sent at the call
FlushStart(t) ==
  /\ producers[t].pc = "idle"
  /\ event_queue # <<>>
  /\ event_queue' = Tail(event_queue)
  /\ events' = SetStatus(events, {Head(event_queue)}, "drained")
  /\ producers' = [producers EXCEPT ![t].pc = "flush", ![t].drained = <<Head(event_queue)>>,
                                    ![t].pending = Pending(events)]
  /\ UNCHANGED <<flusher, clock, batcher, last_export, outsideBatcher>>

\* flush(): the next get_nowait; on queue.Empty the drained events are sent and
\* flush() returns
FlushNext(t, net_ok) ==
  /\ producers[t].pc = "flush"
  /\ IF event_queue # <<>>
       THEN /\ event_queue' = Tail(event_queue)
            /\ events' = SetStatus(events, {Head(event_queue)}, "drained")
            /\ producers' = [producers EXCEPT ![t].drained = Append(@, Head(event_queue))]
       ELSE /\ events' = SendBatch(events, producers[t].drained, net_ok)
            /\ producers' = [producers EXCEPT
                 ![t].pc = IF SendRaises(net_ok) THEN "raised" ELSE "idle",
                 ![t].drained = <<>>,
                 ![t].pending = {}]
            /\ UNCHANGED event_queue
  /\ UNCHANGED <<flusher, clock, batcher, last_export, outsideBatcher>>

\* _flush_loop: while not self._shutdown
LoopTest ==
  /\ flusher.pc = "test"
  /\ flusher' = [flusher EXCEPT !.pc = IF batcher.shutdown THEN "exit" ELSE "get"]
  /\ UNCHANGED <<event_queue, events, producers, clock, batcher, last_export,
                 outsideBatcher>>

\* _flush_loop: self._event_queue.get(timeout=0.1), an event or queue.Empty
LoopGet ==
  /\ flusher.pc = "get"
  /\ IF event_queue # <<>>
       THEN /\ event_queue' = Tail(event_queue)
            /\ events' = SetStatus(events, {Head(event_queue)}, "batched")
            /\ flusher' = [flusher EXCEPT !.pc = "check",
                                          !.batch = Append(@, Head(event_queue))]
       ELSE /\ flusher' = [flusher EXCEPT !.pc = "check"]
            /\ UNCHANGED <<event_queue, events>>
  /\ UNCHANGED <<producers, clock, batcher, last_export, outsideBatcher>>

\* _flush_loop: now = time.time(), should_flush, and if so _send_batch(batch),
\* batch = [], last_flush = now; an exception out of _send_batch skips the two
\* assignments and is caught by the loop's handler
LoopCheck(net_ok) ==
  /\ flusher.pc = "check"
  /\ LET should == ShouldFlush(flusher.batch, clock, flusher.last_flush)
         sends == should /\ flusher.batch # <<>>
     IN /\ IF sends
             THEN events' = SendBatch(events, flusher.batch, net_ok)
             ELSE UNCHANGED events
        /\ flusher' =
             IF ~should THEN [flusher EXCEPT !.pc = "test"]
             ELSE IF sends /\ SendRaises(net_ok)
               THEN [flusher EXCEPT !.pc = IF LoopCatches("network_error")
                                             THEN "test" ELSE "crashed"]
             ELSE [pc |-> "test", batch |-> BatchAfterSend(flusher.batch),
                   last_flush |-> clock]
  /\ UNCHANGED <<event_queue, producers, clock, batcher, last_export, outsideBatcher>>

\* _flush_loop, after the loop: if batch: self._send_batch(batch)
LoopExit(net_ok) ==
  /\ flusher.pc = "exit"
  /\ IF flusher.batch # <<>>
       THEN /\ events' = SendBatch(events, flusher.batch, net_ok)
            /\ flusher' = [flusher EXCEPT !.pc = IF SendRaises(net_ok) THEN "crashed"
                                                 ELSE "stopped"]
       ELSE /\ flusher' = [flusher EXCEPT !.pc = "stopped"]
            /\ UNCHANGED events
  /\ UNCHANGED <<event_queue, producers, clock, batcher, last_export, outsideBatcher>>

\* Time passes
Tick ==
  /\ clock < MaxTime
  /\ clock' = clock + 1
  /\ UNCHANGED <<event_queue, events, producers, flusher, batcher, last_export,
                 outsideBatcher>>

\* shutdown(): if self._shutdown: return; self._shutdown = True
ShutdownBegin ==
  /\ ~batcher.shutdown
  /\ batcher.closer = "none"
  /\ batcher' = [batcher EXCEPT !.shutdown = TRUE, !.closer = "joining"]
  /\ UNCHANGED <<event_queue, events, producers, flusher, clock, last_export,
                 outsideBatcher>>

\* shutdown(): self._flush_thread.join(timeout=5.0) returns, the thread having
\* ended or the timeout having run out; self._client.close()
ShutdownClose(join_timed_out) ==
  /\ batcher.closer = "joining"
  /\ flusher.pc \in {"stopped", "crashed"} \/ join_timed_out
  /\ batcher' = [batcher EXCEPT !.client_open = FALSE, !.closer = "done"]
  /\ UNCHANGED <<event_queue, events, producers, flusher, clock, last_export,
                 outsideBatcher>>

\* What an export() call does: the spans are written or accepted, the backend
\* rejects them, or converting, writing or sending them raises
ExportOutcome(ok, exc) ==
  IF ok THEN [result |-> "SUCCESS", error |-> FALSE, raised |-> FALSE]
  ELSE [result |-> IF ExportCatches(exc) THEN "FAILURE" ELSE "none", error |-> TRUE,
        raised |-> ~ExportCatches(exc)]

\* FileSpanExporter.export(spans)
FileExport(io_ok) ==
  /\ last_export' = ExportOutcome(io_ok, "io_error")
  /\ UNCHANGED <<event_queue, events, producers, flusher, clock, batcher, outsideBatcher>>

\* KalibrHTTPSpanExporter.export(spans): no API key is configured, or what the
\* conversion of the spans and the backend do
HttpOutcomes == {"no_api_key", "ok", "rejected", "network_error", "convert_error"}

HttpExport(outcome) ==
  /\ last_export' =
       IF outcome = "no_api_key" THEN ExportOutcome(TRUE, None)
       ELSE IF outcome = "rejected"
         THEN [result |-> "FAILURE", error |-> FALSE, raised |-> FALSE]
       ELSE ExportOutcome(outcome = "ok", outcome)
  /\ UNCHANGED <<event_queue, events, producers, flusher, clock, batcher, outsideBatcher>>

\* The callbacks, enqueue, the flush thread and shutdown
NextBatcherLoop ==
  \/ \E t \in Threads :
       \/ CallbackBuilds(t)
       \/ CallbackHandlerRaises(t)
       \/ EnqueuePut(t)
       \/ EnqueueDrop(t)
       \/ EnqueueRetry(t)
  \/ LoopTest
  \/ LoopGet
  \/ \E net_ok \in BOOLEAN : LoopCheck(net_ok)
  \/ \E net_ok \in BOOLEAN : LoopExit(net_ok)
  \/ Tick
  \/ ShutdownBegin
  \/ \E join_timed_out \in BOOLEAN : ShutdownClose(join_timed_out)

\* The whole EventBatcher, flush() included
NextBatcher ==
  \/ NextBatcherLoop
  \/ \E t \in Threads :
       \/ FlushStart(t)
       \/ \E net_ok \in BOOLEAN : FlushNext(t, net_ok)

InitBatcher ==
  /\ Init
  /\ paths = <<Path("gpt-4o", None, NoneDict)>>
  /\ success_when = FALSE

SpecBatcher == InitBatcher /\ [][NextBatcher]_vars

\* Everything that exports: the callbacks and the flush thread of the batcher,
\* and the span exporters
NextFailures ==
  \/ NextBatcherLoop
  \/ \E io_ok \in BOOLEAN : FileExport(io_ok)
  \/ \E outcome \in HttpOutcomes : HttpExport(outcome)

SpecFailures == InitBatcher /\ [][NextFailures]_vars

TypeOK ==
  /\ pc \in {"idle", "dispatching"}
  /\ Len(paths) \in 1..MaxPaths
  /\ outcome_reported \in BOOLEAN

(***************************************************************************)
(* Functions without state.  Strings are Python strings: Len, SubSeq and   *)
(* \o act on their characters.                                             *)
(***************************************************************************)
outsidePure == <<outsideTelemetry, capsuleVars, registryVars, batcherVars, instrVars>>

UpperLetters == "ABCDEFGHIJKLMNOPQRSTUVWXYZ"
LowerLetters == "abcdefghijklmnopqrstuvwxyz"

\* The lower-case letter of each upper-case letter
UpperToLower ==
  [c \in {SubSeq(UpperLetters, i, i) : i \in 1..Len(UpperLetters)} |->
     LET i == CHOOSE j \in 1..Len(UpperLetters) : SubSeq(UpperLetters, j, j) = c
     IN SubSeq(LowerLetters, i, i)]

\* str.lower() on one character
LowerChar(c) == IF c \in DOMAIN UpperToLower THEN UpperToLower[c] ELSE c

\* str.lower()
RECURSIVE Lower(_)
Lower(s) == IF s = "" THEN "" ELSE LowerChar(SubSeq(s, 1, 1)) \o Lower(SubSeq(s, 2, Len(s)))

\* sub in s
Contains(s, sub) ==
  \E i \in 0..(Len(s) - Len(sub)) : SubSeq(s, i + 1, i + Len(sub)) = sub

\* s.split(sep)[0]
SplitFirst(s, sep) ==
  LET hits == {i \in 1..(Len(s) - Len(sep) + 1) : SubSeq(s, i, i + Len(sep) - 1) = sep}
  IN IF hits = {} THEN s
     ELSE SubSeq(s, 1, (CHOOSE i \in hits : \A j \in hits : i <= j) - 1)

\* The keys of MODEL_PRICING, per vendor
MODEL_PRICING ==
  [openai |-> {"gpt-5", "gpt-5-turbo", "gpt-4", "gpt-4-turbo", "gpt-4o", "gpt-4o-mini",
               "gpt-3.5-turbo", "gpt-3.5-turbo-16k"},
   anthropic |-> {"claude-4-opus", "claude-4-sonnet", "claude-sonnet-4", "claude-3-7-sonnet",
                  "claude-3-5-sonnet", "claude-3-opus", "claude-3-sonnet", "claude-3-haiku",
                  "claude-2.1", "claude-2.0", "claude-instant-1.2"},
   google |-> {"gemini-2.5-pro", "gemini-2.5-flash", "gemini-2.0-flash",
               "gemini-2.0-flash-thinking", "gemini-1.5-pro", "gemini-1.5-flash",
               "gemini-1.5-flash-8b", "gemini-1.0-pro", "gemini-pro"}]

\* One branch of an if/elif chain: the substrings tested and the key returned
Rule(subs, key) == [subs |-> subs, key |-> key]

\* The fuzzy matches of normalize_model_name, in the order of the code
OpenAIRules ==
  <<Rule({"gpt-4o-mini"}, "gpt-4o-mini"), Rule({"gpt-4o"}, "gpt-4o"),
    Rule({"gpt-5-turbo"}, "gpt-5-turbo"), Rule({"gpt-5"}, "gpt-5"),
    Rule({"gpt-4-turbo"}, "gpt-4-turbo"), Rule({"gpt-4"}, "gpt-4"),
    Rule({"gpt-3.5-turbo-16k"}, "gpt-3.5-turbo-16k"), Rule({"gpt-3.5"}, "gpt-3.5-turbo")>>

AnthropicRules ==
  <<Rule({"claude-3.5-sonnet", "claude-3-5-sonnet"}, "claude-3-5-sonnet"),
    Rule({"claude-sonnet-4", "sonnet-4"}, "claude-sonnet-4"),
    Rule({"claude-3-7-sonnet"}, "claude-3-7-sonnet"),
    Rule({"claude-4-opus"}, "claude-4-opus"), Rule({"claude-4-sonnet"}, "claude-4-sonnet"),
    Rule({"claude-3-opus"}, "claude-3-opus"), Rule({"claude-3-sonnet"}, "claude-3-sonnet"),
    Rule({"claude-3-haiku"}, "claude-3-haiku"), Rule({"claude-2.1"}, "claude-2.1"),
    Rule({"claude-2.0", "claude-2"}, "claude-2.0"),
    Rule({"claude-instant"}, "claude-instant-1.2")>>

GoogleRules ==
  <<Rule({"gemini-2.5-pro"}, "gemini-2.5-pro"), Rule({"gemini-2.5-flash"}, "gemini-2.5-flash"),
    Rule({"gemini-2.0-flash-thinking"}, "gemini-2.0-flash-thinking"),
    Rule({"gemini-2.0-flash"}, "gemini-2.0-flash"),
    Rule({"gemini-1.5-flash-8b"}, "gemini-1.5-flash-8b"),
    Rule({"gemini-1.5-flash"}, "gemini-1.5-flash"), Rule({"gemini-1.5-pro"}, "gemini-1.5-pro"),
    Rule({"gemini-1.0-pro", "gemini-pro"}, "gemini-pro")>>

\* An if/elif chain over model_lower: the key of the first rule that matches, and
\* model_lower when none does
RECURSIVE FirstMatch(_, _)
FirstMatch(rules, model_lower) ==
  IF rules = <<>> THEN model_lower
  ELSE IF \E sub \in Head(rules).subs : Contains(model_lower, sub) THEN Head(rules).key
  ELSE FirstMatch(Tail(rules), model_lower)

\* normalize_model_name(vendor, model_name)
normalize_model_name(vendor, model_name) ==
  LET v == Lower(vendor)
      model_lower == Lower(model_name)
      vendor_models == IF v \in DOMAIN MODEL_PRICING THEN MODEL_PRICING[v] ELSE {}
      base_model == IF Contains(model_lower, "-2") THEN SplitFirst(model_lower, "-2")
                    ELSE model_lower
  IN IF model_lower \in vendor_models THEN model_lower
     ELSE IF v = "openai"
       THEN IF base_model \in vendor_models THEN base_model
            ELSE FirstMatch(OpenAIRules, model_lower)
     ELSE IF v = "anthropic" THEN FirstMatch(AnthropicRules, model_lower)
     ELSE IF v = "google" THEN FirstMatch(GoogleRules, model_lower)
     ELSE model_lower

Vendors == {"openai", "anthropic", "google"}

\* The date suffixes of a versioned model name, -YYYYMMDD and -YYYY-MM-DD
DateSuffixes == {"-20240513", "-2024-05-13"}

\* What follows a table key in the names given to normalize_model_name
NameSuffixes == {"", "-latest", "-preview"} \cup DateSuffixes

\* Names that are no table key followed by a suffix: other spellings and cases,
\* and a model that is not in the table
OtherNames == {"GPT-4O", "CLAUDE-3-OPUS", "GEMINI-PRO", "claude-3.5-sonnet", "unknown-model"}

\* normalize_model_name(vendor, base + suffix)
NormalizeCall(vendor, base, suffix) ==
  /\ pure_call = NoCall
  /\ pure_call' = [fn |-> "normalize_model_name", vendor |-> vendor, base |-> base,
                   suffix |-> suffix,
                   result |-> normalize_model_name(vendor, base \o suffix)]
  /\ UNCHANGED outsidePure

\* str.startswith(prefix)
StartsWith(s, prefix) == Len(s) >= Len(prefix) /\ SubSeq(s, 1, Len(prefix)) = prefix

\* The dicts with keys among keys and values among values
Dicts(keys, values) == UNION {[ks -> values] : ks \in SUBSET keys}

\* The models of the dispatched paths, one per branch of _dispatch
DispatchModels == {"gpt-4o", "claude-3-opus", "gemini-1.5-pro", "mistral-7b"}

\* path["params"] of a dispatched path: None, or a dict
DispatchParams == {NoneDict} \cup Dicts({"temperature", "model"}, {1, 2})

\* The keyword arguments the caller gives completion()
DispatchKwargs == Dicts({"temperature", "max_tokens", "tools"}, {2, 3})

\* The adapter _dispatch chooses for a model id
AdapterOf(model_id) ==
  IF StartsWith(model_id, "gpt-") \/ StartsWith(model_id, "o1-") \/ StartsWith(model_id, "o3-")
    THEN "_call_openai"
  ELSE IF StartsWith(model_id, "claude-") THEN "_call_anthropic"
  ELSE IF StartsWith(model_id, "gemini-") \/ StartsWith(model_id, "models/gemini")
    THEN "_call_google"
  ELSE "_call_openai"

\* The parameters a call binds by position, which no keyword may name again
DispatchPositional == {"self", "model_id", "messages", "tools"}
AdapterPositional == {"self", "model", "messages", "tools"}

\* f(a, b, c, **kw) raises TypeError when kw names a parameter bound by position
BindsKeywords(positional, kw) == DOMAIN kw \cap positional = {}

\* One iteration of completion()'s loop up to the adapter:
\* self._dispatch(current_model, messages, current_tools, **{**current_params, **kwargs})
\* and in it self._call_<provider>(model_id, messages, tools, **kwargs)
DispatchOutcome(path, kw) ==
  LET merged == CallParams(path, kw)
      bound == BindsKeywords(DispatchPositional, merged) /\ BindsKeywords(AdapterPositional, merged)
  IN [raised |-> ~bound,
      adapter |-> IF bound THEN AdapterOf(path.model) ELSE None,
      adapter_kwargs |-> IF bound THEN merged ELSE NoneDict,
      params_after |-> path.params]

DispatchCall(model, params, kw) ==
  /\ pure_call = NoCall
  /\ pure_call' = [fn |-> "_dispatch", path |-> Path(model, None, params), kwargs |-> kw,
                   out |-> DispatchOutcome(Path(model, None, params), kw)]
  /\ UNCHANGED outsidePure

\* The messages given to the Anthropic adapter
MessageRoles == {"system", "user", "assistant"}
MessageContents == {"", "a", "b"}
MessageChoices ==
  {[role |-> r, content |-> c] : r \in MessageRoles, c \in MessageContents}
    \cup {[role |-> "user", content |-> "a", name |-> "n"]}
MessageLists == UNION {[1..n -> MessageChoices] : n \in 0..MaxMessages}

\* The keyword arguments given to the Anthropic adapter
AnthropicKwargs == {EmptyDict, [max_tokens |-> 5], [system |-> "k"]}

\* _call_anthropic's loop: system is the content of the last system message, or None
HoistedSystem(messages) ==
  LET at == {i \in DOMAIN messages : messages[i].role = "system"}
  IN IF at = {} THEN None
     ELSE messages[CHOOSE i \in at : \A j \in at : j <= i].content

\* _call_anthropic's loop: anthropic_messages
RECURSIVE AnthropicMessages(_)
AnthropicMessages(messages) ==
  IF messages = <<>> THEN <<>>
  ELSE IF Head(messages).role = "system" THEN AnthropicMessages(Tail(messages))
  ELSE <<[role |-> Head(messages).role, content |-> Head(messages).content]>>
         \o AnthropicMessages(Tail(messages))

\* _call_anthropic: the call_kwargs given to client.messages.create
AnthropicCallKwargs(model, messages, tools, kw) ==
  LET system == HoistedSystem(messages)
      max_tokens == IF "max_tokens" \in DOMAIN kw THEN kw["max_tokens"] ELSE 4096
      popped == [k \in DOMAIN kw \ {"max_tokens"} |-> kw[k]]
      first == [model |-> model, messages |-> AnthropicMessages(messages),
                max_tokens |-> max_tokens]
      withSystem == IF Truthy(system) THEN MergeDicts(first, [system |-> system]) ELSE first
      withTools == IF Truthy(tools) THEN MergeDicts(withSystem, [tools |-> tools])
                   ELSE withSystem
  IN MergeDicts(withTools, popped)

CallAnthropic(messages, tools, kw) ==
  /\ pure_call = NoCall
  /\ pure_call' = [fn |-> "_call_anthropic", messages |-> messages, kwargs |-> kw,
                   passed |-> AnthropicCallKwargs("claude-3-opus", messages, tools, kw)]
  /\ UNCHANGED outsidePure

NextPure ==
  \/ \E vendor \in Vendors : \E base \in MODEL_PRICING[vendor], suffix \in NameSuffixes :
       NormalizeCall(vendor, base, suffix)
  \/ \E vendor \in Vendors, name \in OtherNames : NormalizeCall(vendor, name, "")
  \/ \E model \in DispatchModels, params \in DispatchParams, kw \in DispatchKwargs :
       DispatchCall(model, params, kw)
  \/ \E messages \in MessageLists, tools \in {None, "search"}, kw \in AnthropicKwargs :
       CallAnthropic(messages, tools, kw)

InitPure ==
  /\ Init
  /\ paths = <<Path("gpt-4o", None, NoneDict)>>
  /\ success_when = FALSE

SpecPure == InitPure /\ [][NextPure]_vars

(***************************************************************************)
(* Prices and costs.  A price is in units of 0.0001 USD per million        *)
(* tokens, so tokens * price is a cost in units of 1e-10 USD, and a        *)
(* returned cost is in units of 0.000001 USD (six decimal places).         *)
(***************************************************************************)
Price(input, output) == [input |-> input, output |-> output]

\* MODEL_PRICING with its prices
MODEL_PRICES ==
  [openai |->
     ("gpt-5" :> Price(50000, 150000)) @@ ("gpt-5-turbo" :> Price(25000, 75000)) @@
     ("gpt-4" :> Price(300000, 600000)) @@ ("gpt-4-turbo" :> Price(100000, 300000)) @@
     ("gpt-4o" :> Price(25000, 100000)) @@ ("gpt-4o-mini" :> Price(1500, 6000)) @@
     ("gpt-3.5-turbo" :> Price(5000, 15000)) @@ ("gpt-3.5-turbo-16k" :> Price(10000, 20000)),
   anthropic |->
     ("claude-4-opus" :> Price(150000, 750000)) @@ ("claude-4-sonnet" :> Price(30000, 150000)) @@
     ("claude-sonnet-4" :> Price(30000, 150000)) @@
     ("claude-3-7-sonnet" :> Price(30000, 150000)) @@
     ("claude-3-5-sonnet" :> Price(30000, 150000)) @@
     ("claude-3-opus" :> Price(150000, 750000)) @@ ("claude-3-sonnet" :> Price(30000, 150000)) @@
     ("claude-3-haiku" :> Price(2500, 12500)) @@ ("claude-2.1" :> Price(80000, 240000)) @@
     ("claude-2.0" :> Price(80000, 240000)) @@ ("claude-instant-1.2" :> Price(8000, 24000)),
   google |->
     ("gemini-2.5-pro" :> Price(12500, 50000)) @@ ("gemini-2.5-flash" :> Price(750, 3000)) @@
     ("gemini-2.0-flash" :> Price(750, 3000)) @@
     ("gemini-2.0-flash-thinking" :> Price(750, 3000)) @@
     ("gemini-1.5-pro" :> Price(12500, 50000)) @@ ("gemini-1.5-flash" :> Price(750, 3000)) @@
     ("gemini-1.5-flash-8b" :> Price(375, 1500)) @@ ("gemini-1.0-pro" :> Price(5000, 15000)) @@
     ("gemini-pro" :> Price(5000, 15000))]

DEFAULT_PRICING ==
  [openai |-> Price(300000, 600000), anthropic |-> Price(150000, 750000),
   google |-> Price(12500, 50000)]

\* get_pricing: the second argument of DEFAULT_PRICING.get(vendor, ...)
UnknownVendorPricing == Price(200000, 600000)

\* A fallback that charges nothing
DefaultPrice_Zero(v) == Price(0, 0)

\* get_pricing: DEFAULT_PRICING.get(vendor, {"input": 20.00, "output": 60.00})
DefaultPrice(v) == IF v \in DOMAIN DEFAULT_PRICING THEN DEFAULT_PRICING[v] ELSE UnknownVendorPricing

\* get_pricing(vendor, model_name): the pricing, the normalized name, and whether
\* the normalized name is a key of the vendor's table
get_pricing(vendor, model_name) ==
  LET v == Lower(vendor)
      normalized_model == normalize_model_name(v, model_name)
      found == v \in DOMAIN MODEL_PRICES /\ normalized_model \in DOMAIN MODEL_PRICES[v]
  IN [pricing |-> IF found THEN MODEL_PRICES[v][normalized_model] ELSE DefaultPrice(v),
      normalized_model |-> normalized_model, found |-> found]

\* round(x, 6) that drops the seventh decimal place and those after it
Round6_Truncate(cost, tie_up) == cost \div 10000

\* round(x, 6) of a cost in units of 1e-10 USD.  When the cost lies exactly between
\* two values of six decimal places, the binary value of the float sum decides the
\* direction (tie_up)
Round6(cost, tie_up) ==
  IF cost % 10000 > 5000 \/ (cost % 10000 = 5000 /\ tie_up) THEN cost \div 10000 + 1
  ELSE cost \div 10000

\* compute_cost(vendor, model_name, input_tokens, output_tokens), and the price it used
\* (the cost adapters' compute_cost is the same computation with the vendor fixed)
compute_cost(vendor, model_name, input_tokens, output_tokens, tie_up) ==
  LET got_pricing == get_pricing(vendor, model_name)
      input_cost == input_tokens * got_pricing.pricing.input
      output_cost == output_tokens * got_pricing.pricing.output
  IN [cost |-> Round6(input_cost + output_cost, tie_up), price |-> got_pricing.pricing,
      found |-> got_pricing.found]

\* CostAdapterFactory._adapters
CostAdapters == {"openai", "anthropic"}

\* No price was looked up
NoPrice == Price(-1, -1)

\* CostAdapterFactory.compute_cost(vendor, model_name, tokens_in, tokens_out)
FactoryComputeCost(vendor, model_name, tokens_in, tokens_out, tie_up) ==
  IF Lower(vendor) \in CostAdapters
    THEN compute_cost(Lower(vendor), model_name, tokens_in, tokens_out, tie_up)
    ELSE [cost |-> 0, price |-> NoPrice, found |-> FALSE]

\* The vendors costs are computed for: those of the table and one that is not in it
CostVendors == Vendors \cup {"mistral"}

\* The model names costs are computed for: keys of the table, among them each
\* vendor's cheapest, dated names, and names that match nothing
CostModels(vendor) ==
  IF vendor = "openai" THEN {"gpt-4o", "gpt-4o-2024-05-13", "gpt-4o-mini", "unknown-model"}
  ELSE IF vendor = "anthropic" THEN {"claude-3-sonnet", "claude-3-haiku", "unknown-model"}
  ELSE IF vendor = "google"
    THEN {"gemini-1.5-pro", "gemini-1.5-flash-8b", "gemini-1.0-pro-20240513", "unknown-model"}
  ELSE {"mistral-7b"}

\* The token counts: none, the counts of the tests, and counts whose cost has more
\* than six decimal places
TokenCounts == {<<0, 0>>, <<1000, 500>>, <<1, 1>>, <<3, 1>>}

CostFunctions == {"compute_cost", "CostAdapterFactory.compute_cost"}

\* How many cost computations the model has made
CostCalls == IF pure_call = NoCall THEN 0 ELSE pure_call.calls

\* One call of compute_cost or of CostAdapterFactory.compute_cost
CostCall(fn, vendor, model_name, tokens, tie_up) ==
  /\ CostCalls < MaxCostCalls
  /\ LET out == IF fn = "compute_cost"
                  THEN compute_cost(vendor, model_name, tokens[1], tokens[2], tie_up)
                  ELSE FactoryComputeCost(vendor, model_name, tokens[1], tokens[2], tie_up)
     IN pure_call' = [fn |-> fn, vendor |-> vendor, model_name |-> model_name,
                      input_tokens |-> tokens[1], output_tokens |-> tokens[2],
                      cost |-> out.cost, price |-> out.price, found |-> out.found,
                      calls |-> CostCalls + 1]
  /\ UNCHANGED outsidePure

NextPricing ==
  \E fn \in CostFunctions, vendor \in CostVendors, tokens \in TokenCounts, tie_up \in BOOLEAN :
    \E model_name \in CostModels(vendor) : CostCall(fn, vendor, model_name, tokens, tie_up)

InitPricing ==
  /\ Init
  /\ paths = <<Path("gpt-4o", None, NoneDict)>>
  /\ success_when = FALSE

SpecPricing == InitPricing /\ [][NextPricing]_vars

(***************************************************************************)
(* instrumentation.registry.auto_instrument(["openai"]) and                *)
(* openai_instr.instrument() / uninstrument(), called by several threads.  *)
(* Each with-block of the registry lock is one step; instrument() takes no *)
(* lock, so each of its reads and writes of the instrumentation object and *)
(* of the SDK class is one step. The sync method stands for the async one, *)
(* which is patched by the same statements.                                *)
(***************************************************************************)
outsideInstr == <<outsideTelemetry, capsuleVars, registryVars, batcherVars, pureVars>>

\* self._traced_create_wrapper(original_func): a new function around original_func
Wrap(original_func) == "wrapper(" \o original_func \o ")"

\* instrument() has returned to thread t: auto_instrument goes on to record the
\* provider if it succeeded, a direct call is over
AfterInstrument(t, success) ==
  [instrumenters EXCEPT ![t].pc = IF instrumenters[t].op = "auto_instrument" /\ success
                                    THEN "register" ELSE "done",
                        ![t].success = success]

\* auto_instrument(["openai"]) by thread t: with _registry_lock, the test whether
\* the provider is already instrumented
AutoInstrumentCheck(t) ==
  /\ instrumenters[t].pc = "idle"
  /\ instrumenters' =
       IF "openai" \in instrumented_providers
         THEN [instrumenters EXCEPT ![t].pc = "done", ![t].op = "auto_instrument",
                                    ![t].success = TRUE]
         ELSE [instrumenters EXCEPT ![t].pc = "test", ![t].op = "auto_instrument"]
  /\ UNCHANGED <<openai_sdk, instrumentation, instrumented_providers, outsideInstr>>

\* openai_instr.instrument() called by thread t itself
InstrumentCall(t) ==
  /\ instrumenters[t].pc = "idle"
  /\ instrumenters' = [instrumenters EXCEPT ![t].pc = "test", ![t].op = "instrument"]
  /\ UNCHANGED <<openai_sdk, instrumentation, instrumented_providers, outsideInstr>>

\* instrument(): if self._is_instrumented: return True; import openai
InstrumentTest(t) ==
  /\ instrumenters[t].pc = "test"
  /\ instrumenters' =
       IF instrumentation.is_instrumented THEN AfterInstrument(t, TRUE)
       ELSE IF ~openai_sdk.installed THEN AfterInstrument(t, FALSE)
       ELSE [instrumenters EXCEPT ![t].pc = "save"]
  /\ UNCHANGED <<openai_sdk, instrumentation, instrumented_providers, outsideInstr>>

\* instrument(): self._original_create = completions.Completions.create
InstrumentSave(t) ==
  /\ instrumenters[t].pc = "save"
  /\ instrumentation' = [instrumentation EXCEPT !.original_create = openai_sdk.create]
  /\ instrumenters' = [instrumenters EXCEPT ![t].pc = "read"]
  /\ UNCHANGED <<openai_sdk, instrumented_providers, outsideInstr>>

\* instrument(): the argument of _traced_create_wrapper, completions.Completions.create
InstrumentRead(t) ==
  /\ instrumenters[t].pc = "read"
  /\ instrumenters' = [instrumenters EXCEPT ![t].pc = "write", ![t].read = openai_sdk.create]
  /\ UNCHANGED <<openai_sdk, instrumentation, instrumented_providers, outsideInstr>>

\* instrument(): completions.Completions.create = the wrapper
InstrumentWrite(t) ==
  /\ instrumenters[t].pc = "write"
  /\ openai_sdk' = [openai_sdk EXCEPT !.create = Wrap(instrumenters[t].read)]
  /\ instrumenters' = [instrumenters EXCEPT ![t].pc = "flag"]
  /\ UNCHANGED <<instrumentation, instrumented_providers, outsideInstr>>

\* instrument(): self._is_instrumented = True; return True
InstrumentFlag(t) ==
  /\ instrumenters[t].pc = "flag"
  /\ instrumentation' = [instrumentation EXCEPT !.is_instrumented = TRUE]
  /\ instrumenters' = AfterInstrument(t, TRUE)
  /\ UNCHANGED <<openai_sdk, instrumented_providers, outsideInstr>>

\* auto_instrument: with _registry_lock: _instrumented_providers.add(provider_lower)
RegistryAdd(t) ==
  /\ instrumenters[t].pc = "register"
  /\ instrumented_providers' = instrumented_providers \cup {"openai"}
  /\ instrumenters' = [instrumenters EXCEPT ![t].pc = "done"]
  /\ UNCHANGED <<openai_sdk, instrumentation, outsideInstr>>

\* openai_instr.uninstrument(), called by thread t once every call above has returned
Uninstrument(t) ==
  /\ \A u \in Threads : instrumenters[u].pc = "done"
  /\ instrumenters' = [instrumenters EXCEPT ![t].pc = "uninstrumented"]
  /\ IF instrumentation.is_instrumented
       THEN /\ openai_sdk' =
                 IF Truthy(instrumentation.original_create)
                   THEN [openai_sdk EXCEPT !.create = instrumentation.original_create]
                   ELSE openai_sdk
            /\ instrumentation' = [instrumentation EXCEPT !.is_instrumented = FALSE]
       ELSE UNCHANGED <<openai_sdk, instrumentation>>
  /\ UNCHANGED <<instrumented_providers, outsideInstr>>

NextInstr ==
  \E t \in Threads :
    \/ AutoInstrumentCheck(t)
    \/ InstrumentCall(t)
    \/ InstrumentTest(t)
    \/ InstrumentSave(t)
    \/ InstrumentRead(t)
    \/ InstrumentWrite(t)
    \/ InstrumentFlag(t)
    \/ RegistryAdd(t)
    \/ Uninstrument(t)

\* The SDK is installed or not
InitInstr ==
  /\ goal = Goal
  /\ paths = <<Path("gpt-4o", None, NoneDict)>>
  /\ success_when = FALSE
  /\ last_trace_id = None
  /\ last_model_id = None
  /\ last_decision = NoneDict
  /\ outcome_reported = FALSE
  /\ pc = "idle"
  /\ force_model = None
  /\ decision = NoneDict
  /\ trace_id = None
  /\ kwargs = EmptyDict
  /\ paths_to_try = <<>>
  /\ idx = 0
  /\ last_exception = NoException
  /\ decide_status = "not_called"
  /\ provider_calls = <<>>
  /\ outcomes = <<>>
  /\ accepted = FALSE
  /\ auto_eval = "none"
  /\ result = NoResult
  /\ report_status = "none"
  /\ report_args = NoReportArgs
  /\ span_trace_id = 0
  /\ env = ConfiguredEnv
  /\ ctor = Constructed
  /\ register_calls = <<>>
  /\ ServicesInit
  /\ CapsuleInit
  /\ RegistryInit
  /\ BatcherInit
  /\ pure_call = NoCall
  /\ openai_sdk \in [installed : BOOLEAN, create : {SdkCreate}]
  /\ instrumentation = [is_instrumented |-> FALSE, original_create |-> None]
  /\ instrumented_providers = {}
  /\ instrumenters = [t \in Threads |-> IdleInstrumenter]

SpecInstr == InitInstr /\ [][NextInstr]_vars

(***************************************************************************)
(* Properties.                                                             *)
(***************************************************************************)

\* The frame of a completion() is observable: the call is in its attempt loop, or
\* it has finished and the application has not called the router since
FrameLive == pc = "dispatching" \/ provider_calls # <<>>

\* The model completion() must try first: the forced model, else the decided
\* model, else (decide failed, or the decision names no model) the first declared one
ExpectedFirstModel ==
  IF Truthy(force_model) THEN force_model
  ELSE IF decide_status = "returned" /\ Truthy(decision.model_id) THEN decision.model_id
  ELSE paths[1].model

\* C1: in every completion() call the list of paths to try holds no two entries
\* with the same model id, and its first entry is the decided/forced model (the
\* first declared path's model when decide failed).
C1_DispatchListDedupDecidedFirst ==
  pc = "dispatching" =>
    /\ \A i, j \in 1..Len(paths_to_try) :
         i # j => paths_to_try[i].model # paths_to_try[j].model
    /\ paths_to_try[1].model = ExpectedFirstModel

\* C1 witness: the decision picks the second declared model, and the first
\* declared path follows it in the list
C1_Witness ==
  /\ pc = "dispatching"
  /\ Len(paths) = 2
  /\ decide_status = "returned"
  /\ decision.model_id = paths[2].model
  /\ paths[1].model # paths[2].model
  /\ Len(paths_to_try) = 2
  /\ paths_to_try[2] = paths[1]

\* The position in the declared list of the first path with the given model
FirstDeclared(model) ==
  CHOOSE a \in 1..Len(paths) :
    paths[a].model = model /\ \A b \in 1..(a - 1) : paths[b].model # model

\* C2: completion() attempts the paths strictly in dispatch order (decided/forced
\* path first, then the remaining declared paths in declaration order); it returns
\* the response of the first path whose provider call succeeds, and after that
\* success no provider call is made for a later path.
C2_AttemptsInOrderStopAtFirstSuccess ==
  FrameLive =>
    /\ Len(provider_calls) <= Len(paths_to_try)
    /\ \A k \in 1..Len(provider_calls) :
         /\ provider_calls[k].model = paths_to_try[k].model
         /\ provider_calls[k].tools = paths_to_try[k].tools
         /\ provider_calls[k].ok =>
              /\ k = Len(provider_calls)
              /\ result.kind = "response"
              /\ result.model = provider_calls[k].model
    /\ \A i \in 2..Len(paths_to_try) :
         /\ \E a \in 1..Len(paths) : paths[a].model = paths_to_try[i].model
         /\ paths_to_try[i] = paths[FirstDeclared(paths_to_try[i].model)]
         /\ \A j \in 2..(i - 1) :
              FirstDeclared(paths_to_try[j].model) < FirstDeclared(paths_to_try[i].model)
    /\ result.kind = "response" => provider_calls[Len(provider_calls)].ok

\* C2 witness: the second of three paths served the response; the third was never called
C2_Witness ==
  /\ result.kind = "response"
  /\ Len(paths_to_try) = 3
  /\ Len(provider_calls) = 2
  /\ ~provider_calls[1].ok
  /\ provider_calls[2].ok

\* C3: if the provider call of every path in the dispatch list fails, completion()
\* raises exactly the exception raised by the last attempted path, not an earlier
\* path's exception, and returns no response.
C3_RaisesLastException ==
  /\ FrameLive /\ result.kind = "raised" =>
       /\ Len(provider_calls) = Len(paths_to_try)
       /\ \A k \in 1..Len(provider_calls) : ~provider_calls[k].ok
       /\ result.exception = provider_calls[Len(provider_calls)].error
       /\ result.exception.path = Len(paths_to_try)
  /\ FrameLive /\ pc = "idle" /\ (\A k \in 1..Len(provider_calls) : ~provider_calls[k].ok) =>
       result.kind = "raised"

\* C3 witness: two paths failed with errors of different types and the call raised
C3_Witness ==
  /\ result.kind = "raised"
  /\ Len(provider_calls) = 2
  /\ provider_calls[1].error.type # provider_calls[2].error.type

\* A provider call of the finished or running completion() was an attempt of the
\* declared path: its model, its tools, and its params under the caller's kwargs
AttemptOf(call, path) ==
  /\ call.model = path.model
  /\ call.tools = path.tools
  /\ call.params = CallParams(path, kwargs)

\* C4 as stated: completion() raises only when every declared path has been
\* attempted and has failed; when a provider call succeeds no exception reaches
\* the caller.
C4_RaisesOnlyWhenEveryDeclaredPathFailed ==
  /\ FrameLive /\ result.kind = "raised" =>
       \A i \in 1..Len(paths) : \E k \in 1..Len(provider_calls) :
         ~provider_calls[k].ok /\ AttemptOf(provider_calls[k], paths[i])
  /\ FrameLive /\ (\E k \in 1..Len(provider_calls) : provider_calls[k].ok) =>
       result.kind = "response"

\* C4 amended: completion() raises only when every path of the dispatch list has
\* been attempted and has failed, so that every declared model id has been tried
\* (a declared path whose model id is already in the list is not attempted itself);
\* when a provider call succeeds no exception reaches the caller.
C4_RaisesOnlyWhenDispatchListFailed ==
  /\ FrameLive /\ result.kind = "raised" =>
       /\ Len(provider_calls) = Len(paths_to_try)
       /\ \A k \in 1..Len(provider_calls) :
            ~provider_calls[k].ok /\ AttemptOf(provider_calls[k], paths_to_try[k])
       /\ \A i \in 1..Len(paths) : \E k \in 1..Len(provider_calls) :
            provider_calls[k].model = paths[i].model
  /\ FrameLive /\ (\E k \in 1..Len(provider_calls) : provider_calls[k].ok) =>
       result.kind = "response"

\* C4 witness: two paths declare the same model with different params; the call
\* raised after the one attempt of that model
C4_Witness ==
  /\ result.kind = "raised"
  /\ Len(paths) = 2
  /\ paths[1].model = paths[2].model
  /\ paths[1] # paths[2]
  /\ Len(provider_calls) = 1

\* C5: if decide raises, completion() does not raise at that stage: it dispatches
\* first to the first declared path with that path's tools and params, and it
\* returns a valid response whenever that path's provider call succeeds.
C5_DecideFailureFallsBackToFirstPath ==
  FrameLive /\ decide_status = "raised" =>
    /\ paths_to_try[1] = Path(paths[1].model, paths[1].tools, OrEmpty(paths[1].params))
    /\ result.kind = "raised" => provider_calls # <<>>
    /\ provider_calls # <<>> =>
         /\ AttemptOf(provider_calls[1], paths[1])
         /\ provider_calls[1].ok =>
              /\ result.kind = "response"
              /\ result.model = paths[1].model
              /\ Truthy(result.kalibr_trace_id)

\* C5 witness: decide raised and the first declared path, a structured one, served
C5_Witness ==
  /\ decide_status = "raised"
  /\ result.kind = "response"
  /\ Len(provider_calls) = 1
  /\ paths[1].tools = "search"
  /\ Len(paths) = 2

\* A report() call of the application
ReportStep == \E args \in ReportArgs, net_ok \in BOOLEAN : Report(args, net_ok)

\* A report() call that returns without raising, sends nothing and changes no field
ReportIsNoOp ==
  /\ report_status' = "suppressed"
  /\ outcomes' = outcomes
  /\ UNCHANGED routerFields

C7_ExactlyOneReportWithPredicate ==
  FrameLive /\ success_when /\ result.kind = "response" => Len(outcomes) = 1

\* C7 amended: when a success predicate is configured and completion() returns a
\* response, the outcome reports sent for that call are one failure per failed
\* path, followed by exactly one report for the serving path unless evaluating
\* the predicate raised: exactly one in all when the first attempted path served
\* and the predicate evaluated.
C7_OneReportPerFailedPathAndOneForServed ==
  FrameLive /\ success_when /\ result.kind = "response" =>
    /\ auto_eval # "none"
    /\ Len(outcomes) = (result.attempts - 1) + (IF auto_eval = "raise" THEN 0 ELSE 1)
    /\ \A k \in 1..(result.attempts - 1) : ~outcomes[k].success
    /\ auto_eval # "raise" =>
         /\ outcomes[Len(outcomes)].success = (auto_eval = "true")
         /\ outcomes[Len(outcomes)].model_id = result.model
    /\ result.attempts = 1 /\ auto_eval # "raise" => Len(outcomes) = 1

\* C7 witness: with a predicate configured the second path served; two reports were sent
C7_Witness ==
  /\ FrameLive
  /\ success_when
  /\ result.kind = "response"
  /\ result.attempts = 2
  /\ auto_eval = "false"
  /\ Len(outcomes) = 2

\* The two-path scenario: the decision picks the first declared model, its adapter
\* raises, the second model's adapter succeeds
TwoPathScenario ==
  /\ FrameLive
  /\ Len(paths) = 2
  /\ paths[1].model # paths[2].model
  /\ decide_status = "returned"
  /\ decision.model_id = paths[1].model
  /\ Len(provider_calls) = 2
  /\ ~provider_calls[1].ok
  /\ provider_calls[2].ok

\* A failure for the first model, then a success for the second, and nothing else
FailureThenSuccess ==
  /\ Len(outcomes) = 2
  /\ ~outcomes[1].success
  /\ outcomes[1].model_id = paths[1].model
  /\ outcomes[2].success
  /\ outcomes[2].model_id = paths[2].model

\* C8 as stated: in the two-path scenario completion() returns the response and
\* exactly two outcome reports have been sent, a failure for the first model, then
\* a success for the second model.
C8_TwoReportsInScenario ==
  TwoPathScenario => result.kind = "response" /\ FailureThenSuccess

\* C8 amended: in the two-path scenario completion() returns the response; when a
\* success predicate is configured and holds of the response exactly two outcome
\* reports have been sent, a failure for the first model, then a success for the
\* second model; with no predicate configured only the failure has been sent.
C8_TwoReportsInScenarioWithPredicate ==
  TwoPathScenario =>
    /\ result.kind = "response"
    /\ success_when /\ auto_eval = "true" => FailureThenSuccess
    /\ ~success_when =>
         /\ Len(outcomes) = 1
         /\ ~outcomes[1].success
         /\ outcomes[1].model_id = paths[1].model

\* C8 witness: the scenario with a predicate that holds
C8_Witness ==
  /\ TwoPathScenario
  /\ success_when
  /\ auto_eval = "true"
  /\ Len(outcomes) = 2

\* C9: after completion() returns a response, the router's last model id is the
\* model of the path whose provider call produced it, and an outcome reported
\* afterwards for that call is sent with that model id.
C9_LastModelIsServingModel ==
  result.kind = "response" =>
    /\ last_model_id = result.model
    /\ FrameLive =>
         /\ provider_calls[Len(provider_calls)].ok
         /\ provider_calls[Len(provider_calls)].model = result.model
    /\ \A k \in result.attempts..Len(outcomes) : outcomes[k].model_id = result.model

\* C9 witness: a fallback model served, not the decided one, and the application's
\* report() for it was sent
C9_Witness ==
  /\ result.kind = "response"
  /\ result.attempts = 2
  /\ result.model # last_decision.model_id
  /\ report_status = "sent"
  /\ Len(outcomes) = 2

\* The decision of the current cycle supplied a trace id
DecisionSuppliedTrace ==
  /\ "trace_id" \in DOMAIN last_decision
  /\ Truthy(last_decision.trace_id)

\* C10 as stated: whenever the decision supplied a trace id, the response carries
\* that trace id, it is the router's last trace id, and it is the trace id sent
\* with every outcome reported during and after that call until the next
\* completion().
C10_EveryOutcomeCarriesDecisionTrace ==
  DecisionSuppliedTrace =>
    /\ last_trace_id = last_decision.trace_id
    /\ result.kind = "response" => result.kalibr_trace_id = last_decision.trace_id
    /\ \A k \in 1..Len(outcomes) : outcomes[k].trace_id = last_decision.trace_id

\* C10 amended: whenever the decision supplied a trace id, the response carries
\* that trace id, it is the router's last trace id, and it is the trace id sent
\* with every outcome completion() reports and with every outcome report() sends
\* without an explicit trace_id argument, until the next completion(); a report()
\* given an explicit trace_id sends that one.
C10_OutcomesCarryDecisionTraceUnlessExplicit ==
  DecisionSuppliedTrace =>
    /\ last_trace_id = last_decision.trace_id
    /\ pc = "dispatching" => trace_id = last_decision.trace_id
    /\ result.kind = "response" => result.kalibr_trace_id = last_decision.trace_id
    /\ FrameLive => \A k \in 1..Len(outcomes) : outcomes[k].trace_id = last_decision.trace_id
    /\ \A k \in 1..Len(outcomes) :
         outcomes[k].trace_id \in {last_decision.trace_id, ExplicitTraceId}
    /\ report_status \in {"sent", "failed"} =>
         outcomes[Len(outcomes)].trace_id =
           IF Truthy(report_args.trace_id) THEN report_args.trace_id
           ELSE last_decision.trace_id

\* C10 witness: the decision supplied a trace id, a fallback path served, and the
\* application's report() without a trace_id argument was sent
C10_Witness ==
  /\ DecisionSuppliedTrace
  /\ result.kind = "response"
  /\ result.attempts = 2
  /\ report_status = "sent"
  /\ ~Truthy(report_args.trace_id)
  /\ Len(outcomes) = 2

\* The decision of the call carries a trace id that parses to a nonzero hex identifier
UsableDecisionTrace ==
  /\ decide_status = "returned"
  /\ Truthy(decision.trace_id)
  /\ ParseHex(decision.trace_id).ok
  /\ ParseHex(decision.trace_id).value # 0

\* C11: when the decision carries no usable trace id (absent, empty, not a hex
\* identifier, or all-zero), and when the call is forced or decide failed,
\* completion() resolves the trace id to a freshly generated identifier, which the
\* response, the last trace id and the outcome reports carry.
C11_UnusableTraceResolvesToFresh ==
  FrameLive /\ ~UsableDecisionTrace =>
    /\ last_trace_id \in FreshTraceIds
    /\ pc = "dispatching" => trace_id \in FreshTraceIds
    /\ result.kind = "response" => result.kalibr_trace_id \in FreshTraceIds
    /\ \A k \in 1..Len(outcomes) : outcomes[k].trace_id \in FreshTraceIds

\* C12: for every completion() call the routing span has as its trace id the trace
\* id that is attached to the response and used for that call's outcome reports.
C12_SpanTraceIsResponseTrace ==
  FrameLive =>
    /\ result.kind = "response" =>
         ParseHex(result.kalibr_trace_id) = [ok |-> TRUE, value |-> span_trace_id]
    /\ \A k \in 1..Len(outcomes) :
         ParseHex(outcomes[k].trace_id) = [ok |-> TRUE, value |-> span_trace_id]

\* C13: reporting an outcome with a failure_category that is not in the closed set
\* raises a validation error to the caller and performs no network call; the
\* router's reported flag is left as it was.
C13_InvalidCategoryRaisesValidationError ==
  [][\A args \in CategoryReportArgs, net_ok \in BOOLEAN :
       args.failure_category \notin FAILURE_CATEGORIES /\ Report(args, net_ok) =>
         /\ report_status' = "validation_error"
         /\ outcomes' = outcomes
         /\ outcome_reported' = outcome_reported]_vars

\* No failure category is validated: a report() that passes one of the closed set is
\* rejected in the same way, before any network call
CategoryNeverAccepted ==
  [][\A args \in CategoryReportArgs, net_ok \in BOOLEAN :
       Report(args, net_ok) =>
         /\ report_status' = "type_error"
         /\ outcomes' = outcomes
         /\ outcome_reported' = outcome_reported]_vars

\* C14: constructing a Router while the API key or the tenant id is missing raises
\* at construction, before any path registration or other network call, whatever
\* auto_register is; no Router instance is produced.
C14_MissingCredentialsFailAtConstruction ==
  ~Truthy(env.api_key) \/ ~Truthy(env.tenant_id) =>
    /\ ctor.status \in {"pending", "raised"}
    /\ ctor.status = "raised" => ctor.error = "credentials"
    /\ register_calls = <<>>
    /\ paths = <<>>

\* C14 witness: the API key is set, the tenant id is not; construction with
\* auto_register raised
C14_Witness ==
  /\ Truthy(env.api_key)
  /\ ~Truthy(env.tenant_id)
  /\ ctor.status = "raised"
  /\ ctor.auto_register

\* A construction with both credentials set gives the router the paths normalized,
\* and registers each of them once when auto_register is set
ConstructedWithCredentials ==
  ctor.status = "done" =>
    /\ ~CredentialsMissing(env)
    /\ goal = Goal
    /\ Len(paths) \in 1..MaxPaths
    /\ Len(register_calls) = IF ctor.auto_register THEN Len(paths) ELSE 0

\* C15: when force_model is given, completion() never calls decide during that
\* call, and the forced model is the first path attempted.
C15_ForcedSkipsDecide ==
  FrameLive /\ Truthy(force_model) =>
    /\ decide_status = "not_called"
    /\ decision = NoneDict
    /\ pc = "dispatching" => paths_to_try[1].model = force_model
    /\ provider_calls # <<>> => provider_calls[1].model = force_model

\* C15 witness: a model no path declares was forced, attempted first, and served
C15_Witness ==
  /\ force_model = UndeclaredModel
  /\ result.kind = "response"
  /\ result.attempts = 1
  /\ result.model = UndeclaredModel
  /\ decide_status = "not_called"

(***************************************************************************)
(* Claims about the module-level accessors, under SpecServices             *)
(***************************************************************************)
InstancesOf(kind) == {i \in DOMAIN instances : instances[i].kind = kind}

\* The instances constructed on behalf of thread t's call
MadeBy(t) == {i \in DOMAIN instances : instances[i].by.thread = t}

\* C16: whatever the interleaving of the threads that call
\* _get_intelligence_client with no instance yet, one KalibrIntelligence is
\* constructed and every caller is handed that one.
C16_OneIntelligenceClient ==
  /\ Cardinality(InstancesOf("intelligence")) <= 1
  /\ Cardinality(returned["intelligence"]) <= 1

\* C17: for each vendor, OpenAI and Anthropic, concurrent get_instrumentation()
\* calls construct one instrumentation object and all return it.
C17_OneInstrumentationPerVendor ==
  \A m \in {"openai", "anthropic"} :
    /\ Cardinality(InstancesOf(m)) <= 1
    /\ Cardinality(returned[m]) <= 1

\* The OpenAI accessor, which checks again under its lock, constructs one object
OpenAISingleInstance ==
  /\ Cardinality(InstancesOf("openai")) <= 1
  /\ Cardinality(returned["openai"]) <= 1

\* C18: concurrent setup_collector calls create one TracerProvider, which is the
\* installed one, and every call returns it.
C18_OneTracerProvider ==
  /\ Cardinality(InstancesOf("provider")) <= 1
  /\ returned["collector"] \subseteq {collector.installed}

\* C19: the dedicated client of a convenience call with a tenant_id is closed
\* once the call has finished, by return or by raise: a dedicated client that is
\* open belongs to a call that has not finished.
C19_DedicatedClientClosed ==
  \A i \in InstancesOf("dedicated") :
    instances[i].open => \E t \in Threads : threads[t].pc = "request" /\ threads[t].client = i

\* C20: a convenience call with a tenant_id constructs one client, its own, and
\* does not create the singleton; a call without one sends its request through
\* a singleton client and constructs no dedicated client.
C20_TenantCallLeavesSingleton ==
  /\ \A i \in InstancesOf("intelligence") : ~Truthy(instances[i].by.tenant)
  /\ \A t \in Threads : Truthy(threads[t].tenant) => Cardinality(MadeBy(t)) <= 1
  /\ \A i \in InstancesOf("dedicated") : Truthy(instances[i].by.tenant)
  /\ \A k \in DOMAIN requests :
        instances[requests[k].client].kind =
          IF Truthy(requests[k].tenant_id) THEN "dedicated" ELSE "intelligence"

\* What does hold of the calls: a request goes through a dedicated client of the
\* given tenant when there is a tenant_id, through a singleton client otherwise
RequestClientMatchesTenant ==
  /\ \A i \in InstancesOf("dedicated") : Truthy(instances[i].by.tenant)
  /\ \A k \in DOMAIN requests :
        /\ instances[requests[k].client].kind =
             IF Truthy(requests[k].tenant_id) THEN "dedicated" ELSE "intelligence"
        /\ instances[requests[k].client].tenant = requests[k].tenant_id

(***************************************************************************)
(* Claims about the hop ring, under SpecCapsule                            *)
(***************************************************************************)
AllAppendersDone == \A t \in Threads : hop_threads[t].done

RetainedIndices == {capsule.last_n_hops[i].hop_index : i \in DOMAIN capsule.last_n_hops}

SamePair(g1, g2) == g1.endpoint = g2.endpoint /\ g1.api_key = g2.api_key

\* C22: under any interleaving of get_instance calls, the calls made with the same
\* (endpoint, api key) pair return the same EventBatcher, and calls made with
\* distinct pairs return distinct ones: one queue and one flush loop per pair.
C22_OneBatcherPerPair ==
  \A g1, g2 \in got : SamePair(g1, g2) <=> g1.instance = g2.instance

\* What does hold: calls with the same pair return the same batcher, and there is
\* one batcher per key string
SamePairSameBatcher ==
  /\ \A g1, g2 \in got : SamePair(g1, g2) => g1.instance = g2.instance
  /\ \A g1, g2 \in got :
       InstanceKey(g1.endpoint, g1.api_key) = InstanceKey(g2.endpoint, g2.api_key)
         <=> g1.instance = g2.instance

\* A producer whose first put_nowait has raised queue.Full and whose enqueue
\* returns in this step
ReturnsFromFullEnqueue(t) ==
  /\ producers[t].pc \in {"drop", "retry"}
  /\ producers'[t].pc \in {"idle", "raised"}

\* C23: whenever an enqueue that found the queue full returns, the event it was
\* given is in the queue, under any interleaving of the producers and the flush
\* thread.
C23_FullQueueEnqueueKeepsNewEvent ==
  [][\A t \in Threads :
       ReturnsFromFullEnqueue(t) =>
         /\ producers'[t].pc = "idle"
         /\ producers[t].event \in Elements(event_queue')]_vars

\* The sequential case of C23: with no other thread between the discard and the
\* second attempt, the oldest event is discarded and the new one is queued
DropThenRetryQueues ==
  [][\A t \in Threads :
       (producers[t].pc = "retry" /\ producers'[t].pc # "retry" /\ ~QueueFull(event_queue))
         => producers[t].event \in Elements(event_queue')]_vars

\* A thread inside enqueue can always take its next step: no step of enqueue waits
EnqueueNeverWaits ==
  \A t \in Threads :
    producers[t].pc \in {"put", "drop", "retry"} =>
      ENABLED (EnqueuePut(t) \/ EnqueueDrop(t) \/ EnqueueRetry(t))

\* C24: the queue never holds more events than its capacity, and enqueue never
\* blocks and never raises to its caller.
C24_QueueBoundedEnqueueNeverBlocksOrRaises ==
  /\ Len(event_queue) <= QueueCapacity
  /\ EnqueueNeverWaits
  /\ \A e \in DOMAIN events : events[e].status # "lost_raising"
  /\ \A t \in Threads : producers[t].pc # "raised"

\* The queue is at its capacity, an enqueue that found it full has discarded the
\* oldest event and another has given up its own, and every caller is back
C24_Witness ==
  /\ Len(event_queue) = QueueCapacity
  /\ \E e \in DOMAIN events : events[e].status = "discarded"
  /\ \E e \in DOMAIN events : events[e].status = "lost"
  /\ \A t \in Threads : producers[t].pc = "idle"

\* The condition of C25 on the flush thread's batch at the current time
FlushCondition ==
  \/ Len(flusher.batch) >= BatchSize
  \/ (flusher.batch # <<>> /\ clock - flusher.last_flush >= FlushInterval)

\* This step is the flush thread sending its batch
FlusherSends ==
  /\ flusher.batch # <<>>
  /\ flusher' # flusher
  /\ \A e \in Elements(flusher.batch) :
       events[e].status = "batched" /\ events'[e].status \in {"posted", "post_failed"}

\* The flush thread finishes the check of one iteration of its loop
LoopChecks == flusher.pc = "check" /\ flusher'.pc # "check"

\* The flush thread finishes the step after its loop
LoopExits == flusher.pc = "exit" /\ flusher'.pc # "exit"

\* C25 as stated: the flush thread sends its batch when and only when the batch
\* has reached batch_size or is non-empty with flush_interval elapsed; after a
\* send the batch is empty and the last-flush time is reset.
C25_SendsOnlyOnSizeOrInterval ==
  [][/\ LoopChecks => (FlusherSends <=> FlushCondition)
     /\ FlusherSends => /\ FlushCondition
                        /\ flusher'.batch = <<>>
                        /\ flusher'.last_flush = clock]_vars

\* C25: in each iteration of the running loop the flush thread sends its batch
\* when and only when the batch has reached batch_size or is non-empty with
\* flush_interval elapsed since the last flush, and then the batch is empty and
\* the last-flush time is the time of the check; once shutdown has ended the
\* loop, a non-empty batch is sent once more whatever its size and age; an
\* empty batch is never sent and leaves the last-flush time alone.
C25_SendsOnSizeOrIntervalOrAtExit ==
  [][/\ LoopChecks =>
          /\ FlusherSends <=> FlushCondition
          /\ FlusherSends => (flusher'.batch = <<>> /\ flusher'.last_flush = clock)
          /\ ~FlusherSends => (events' = events /\ flusher'.batch = flusher.batch
                               /\ flusher'.last_flush = flusher.last_flush)
     /\ LoopExits =>
          /\ FlusherSends <=> flusher.batch # <<>>
          /\ flusher.batch = <<>> => events' = events
     /\ FlusherSends => (LoopChecks \/ LoopExits)]_vars

\* The loop is running, it has sent a batch at a time after its start, and its
\* batch is empty again
C25_Witness ==
  /\ flusher.pc = "test"
  /\ ~batcher.shutdown
  /\ flusher.batch = <<>>
  /\ flusher.last_flush > 0
  /\ \E e \in DOMAIN events : events[e].status = "posted"

\* shutdown() closes the HTTP client in this step
ClientCloses == batcher.client_open /\ ~batcher'.client_open

\* C26: when shutdown closes the HTTP client, no event that was enqueued before
\* shutdown is still waiting in the queue or in a batch: each has been sent.
C26_ShutdownSendsEveryBufferedEvent ==
  [][ClientCloses =>
       \A e \in DOMAIN events :
         events[e].before_shutdown => events[e].status \notin {"queued", "batched", "drained"}]_vars

\* The part of C26 that the flush thread does: when the join has waited for the
\* thread to end, the thread's own batch has been sent before the client closes
JoinedThreadHasSentItsBatch ==
  [][(ClientCloses /\ flusher.pc = "stopped") =>
       \A e \in DOMAIN events : events[e].status # "batched"]_vars

\* C27: no export failure reaches application code: no callback and no
\* _send_batch leaves an exception with its caller, the flush thread ends only
\* after shutdown has been called and never by an exception, and an export that
\* met an error has returned FAILURE and has not raised.
C27_ExportFailureNeverPropagates ==
  /\ \A t \in Threads : producers[t].pc # "raised"
  /\ flusher.pc # "crashed"
  /\ flusher.pc \in {"exit", "stopped"} => batcher.shutdown
  /\ ~last_export.raised
  /\ last_export.error => last_export.result = "FAILURE"

\* A handler has raised and a batch has failed on the network, every callback
\* has returned and the flush loop is still running; the last export met an
\* error and returned FAILURE
C27_Witness ==
  /\ \E e \in DOMAIN events : events[e].status = "handler_error"
  /\ \E e \in DOMAIN events : events[e].status = "post_failed"
  /\ \A t \in Threads : producers[t].pc = "idle"
  /\ batcher.client_open /\ ~batcher.shutdown
  /\ flusher.pc = "get"
  /\ last_export.error /\ last_export.result = "FAILURE"

\* The adapter was called with the union of the path's params and the caller's
\* keyword arguments, the caller's value on a key of both
CalledWithUnion(path, kw, out) ==
  LET params == OrEmpty(path.params)
  IN /\ ~out.raised
     /\ out.adapter = AdapterOf(path.model)
     /\ DOMAIN out.adapter_kwargs = DOMAIN params \cup DOMAIN kw
     /\ \A k \in DOMAIN out.adapter_kwargs :
          out.adapter_kwargs[k] = IF k \in DOMAIN kw THEN kw[k] ELSE params[k]

\* C28: for every attempted path the adapter is called with the union of the
\* path's params and the caller's keyword arguments, the caller winning, and the
\* path's params map is not modified.
C28_AdapterCalledWithParamsUnderKwargs ==
  pure_call.fn = "_dispatch" =>
    /\ CalledWithUnion(pure_call.path, pure_call.kwargs, pure_call.out)
    /\ pure_call.out.params_after = pure_call.path.params

\* The part of C28 that holds: when no key of the params or of the keyword
\* arguments is the name of a positional parameter of _dispatch or of the
\* adapter, the adapter is called with the union; the params map is never modified
UnionWhenNoKeyIsAParameter ==
  pure_call.fn = "_dispatch" =>
    /\ (DOMAIN CallParams(pure_call.path, pure_call.kwargs)
          \cap (DispatchPositional \cup AdapterPositional) = {})
         => CalledWithUnion(pure_call.path, pure_call.kwargs, pure_call.out)
    /\ pure_call.out.params_after = pure_call.path.params

\* The non-system messages of a list, in order, with their role and content
NonSystem(messages) ==
  LET keep(m) == m.role # "system"
      kept == SelectSeq(messages, keep)
  IN [i \in DOMAIN kept |-> [role |-> kept[i].role, content |-> kept[i].content]]

\* C29: for every message list the Anthropic adapter passes a message list with
\* no system message, the non-system messages in order with unchanged role and
\* content, and the content of the system message in the system field.
C29_SystemHoistedOthersKept ==
  pure_call.fn = "_call_anthropic" =>
    /\ \A i \in DOMAIN pure_call.passed.messages : pure_call.passed.messages[i].role # "system"
    /\ pure_call.passed.messages = NonSystem(pure_call.messages)
    /\ \A i \in DOMAIN pure_call.messages :
         pure_call.messages[i].role = "system" =>
           /\ "system" \in DOMAIN pure_call.passed
           /\ pure_call.passed["system"] = pure_call.messages[i].content

\* The part of C29 that holds: the passed list is the non-system messages in
\* order, and a list with one system message of non-empty content, given without
\* a system keyword, has that content in the system field
OneSystemMessageHoisted ==
  pure_call.fn = "_call_anthropic" =>
    /\ pure_call.passed.messages = NonSystem(pure_call.messages)
    /\ \A i \in DOMAIN pure_call.messages :
         (/\ pure_call.messages[i].role = "system"
          /\ pure_call.messages[i].content # ""
          /\ "system" \notin DOMAIN pure_call.kwargs
          /\ \A j \in DOMAIN pure_call.messages :
               pure_call.messages[j].role = "system" => j = i)
           => /\ "system" \in DOMAIN pure_call.passed
              /\ pure_call.passed["system"] = pure_call.messages[i].content

\* The aliases of the vendor's table that occur in a name
MatchingAliases(vendor, name) == {a \in MODEL_PRICING[vendor] : Contains(name, a)}

\* C30: a table key followed by a suffix normalizes to the longest alias of the
\* vendor's table that occurs in the name, and with a date suffix to the key that
\* the name without the suffix normalizes to.
C30_MostSpecificAliasDateSuffixIgnored ==
  (pure_call.fn = "normalize_model_name" /\ pure_call.base \in MODEL_PRICING[pure_call.vendor]) =>
    /\ pure_call.result \in MatchingAliases(pure_call.vendor, pure_call.base \o pure_call.suffix)
    /\ \A a \in MatchingAliases(pure_call.vendor, pure_call.base \o pure_call.suffix) :
         Len(a) <= Len(pure_call.result)
    /\ pure_call.suffix \in DateSuffixes =>
         pure_call.result = normalize_model_name(pure_call.vendor, pure_call.base)

\* The part of C30 that holds: every table key other than gemini-1.0-pro,
\* followed by any of the suffixes, normalizes to itself
KeyWithSuffixNormalizesToKey ==
  (/\ pure_call.fn = "normalize_model_name"
   /\ pure_call.base \in MODEL_PRICING[pure_call.vendor]
   /\ pure_call.base # "gemini-1.0-pro") => pure_call.result = pure_call.base

\* The last call of the model computed a cost
CostComputed == pure_call.fn \in CostFunctions

\* The lowest input price and the lowest output price of a vendor's table
CheapestTier(v) ==
  Price(CHOOSE p \in {MODEL_PRICES[v][m].input : m \in DOMAIN MODEL_PRICES[v]} :
          \A m \in DOMAIN MODEL_PRICES[v] : p <= MODEL_PRICES[v][m].input,
        CHOOSE p \in {MODEL_PRICES[v][m].output : m \in DOMAIN MODEL_PRICES[v]} :
          \A m \in DOMAIN MODEL_PRICES[v] : p <= MODEL_PRICES[v][m].output)

\* The price used is the default of the vendor (for a vendor without a table, the
\* default of get_pricing), positive and above the vendor's cheapest tier
UsesConservativeDefault ==
  LET v == Lower(pure_call.vendor)
  IN /\ pure_call.price = IF v \in DOMAIN DEFAULT_PRICING THEN DEFAULT_PRICING[v]
                          ELSE UnknownVendorPricing
     /\ pure_call.price.input > 0 /\ pure_call.price.output > 0
     /\ v \in DOMAIN MODEL_PRICES =>
          /\ pure_call.price.input > CheapestTier(v).input
          /\ pure_call.price.output > CheapestTier(v).output

\* A price was looked up and it is positive
UsesPositivePrice ==
  pure_call.price # NoPrice /\ pure_call.price.input > 0 /\ pure_call.price.output > 0

\* C31 as stated: every cost computation for a model name that matches no entry
\* uses the vendor's default price, positive and above the cheapest tier, and no
\* cost computation for a non-zero token count uses a zero price.
C31_UnmatchedModelsUseDefaultNeverZero ==
  CostComputed =>
    /\ ~pure_call.found => UsesConservativeDefault
    /\ (pure_call.input_tokens > 0 \/ pure_call.output_tokens > 0) => UsesPositivePrice

\* The call looked a price up: compute_cost, or CostAdapterFactory.compute_cost for
\* a vendor that has a cost adapter
LooksPriceUp ==
  pure_call.fn = "compute_cost" \/ Lower(pure_call.vendor) \in CostAdapters

\* C31: get_pricing gives a model name that matches no entry the vendor's default
\* price (for a vendor without a table, its own default), positive and above the
\* vendor's cheapest tier, and compute_cost and the cost adapters never use a zero
\* price; CostAdapterFactory.compute_cost for a vendor without a cost adapter looks
\* no price up and returns a cost of zero.
C31_LookedUpPriceIsDefaultNeverZero ==
  CostComputed =>
    /\ LooksPriceUp =>
         /\ ~pure_call.found => UsesConservativeDefault
         /\ UsesPositivePrice
    /\ ~LooksPriceUp => (pure_call.price = NoPrice /\ pure_call.cost = 0)

\* A cost was computed for tokens of a model that matches no entry of a vendor with
\* a table, at the vendor's default price
C31_Witness ==
  /\ pure_call.fn = "compute_cost"
  /\ pure_call.vendor = "google" /\ pure_call.model_name = "unknown-model"
  /\ pure_call.input_tokens > 0
  /\ pure_call.price = DEFAULT_PRICING["google"]
  /\ pure_call.cost > 0

\* The cost of the last call's tokens at the price of its model, in units of 1e-10 USD
ExactCost(price) ==
  pure_call.input_tokens * price.input + pure_call.output_tokens * price.output

\* The price of the table for the last call's model where the model is gpt-4o, with
\* or without its date
ListedPrice ==
  IF pure_call.vendor = "openai" /\ pure_call.model_name \in {"gpt-4o", "gpt-4o-2024-05-13"}
    THEN MODEL_PRICES["openai"]["gpt-4o"]
    ELSE pure_call.price

\* C32: the cost compute_cost returns is the sum of tokens times price per million
\* at six decimal places, no further than half a unit of the sixth place from the
\* exact sum; it is 0.0075 for (openai, gpt-4o, 1000, 500) and for the dated name;
\* and it is the same whatever calls were made before.
C32_CostIsRoundedSumOfTokenPrices ==
  pure_call.fn = "compute_cost" =>
    /\ pure_call.cost * 10000 - ExactCost(ListedPrice) \in -5000..5000
    /\ (/\ pure_call.vendor = "openai"
        /\ pure_call.model_name \in {"gpt-4o", "gpt-4o-2024-05-13"}
        /\ pure_call.input_tokens = 1000 /\ pure_call.output_tokens = 500)
         => pure_call.cost = 7500

\* After another call, compute_cost has computed the cost of the dated gpt-4o for
\* the tokens of the test
C32_Witness ==
  /\ pure_call.fn = "compute_cost"
  /\ pure_call.calls = MaxCostCalls
  /\ pure_call.model_name = "gpt-4o-2024-05-13"
  /\ pure_call.input_tokens = 1000 /\ pure_call.output_tokens = 500
  /\ pure_call.cost = 7500

(***************************************************************************)
(* C33: the failure outcome of each failed path.                           *)
(***************************************************************************)
\* While completion() is in its attempt loop every provider call so far has failed:
\* one failure outcome has been requested per failed call, in order, with the reason
\* naming the error type and the model id given by model_of
FailuresReportedFor(model_of(_)) ==
  pc = "dispatching" =>
    /\ Len(outcomes) = Len(provider_calls)
    /\ \A k \in 1..Len(provider_calls) :
         /\ ~outcomes[k].success
         /\ outcomes[k].failure_reason = "provider_error: " \o provider_calls[k].error.type
         /\ outcomes[k].model_id = model_of(k)

\* The model of the k-th attempted path
FailingModel(k) == provider_calls[k].model

\* The model completion() decided on, the first of the dispatch list
DecidedModel(k) == paths_to_try[1].model

\* C33: for each path whose provider call fails during completion(), exactly one
\* failure outcome is reported before the next path is attempted, and it identifies
\* the model of the path that failed, with a reason naming the provider error type.
C33_FailureOutcomeNamesFailingPath == FailuresReportedFor(FailingModel)

\* What the code does: one failure outcome per failed path, with the reason naming
\* the error type, each carrying the decided model
FailureOutcomesNameDecidedModel == FailuresReportedFor(DecidedModel)

\* Two paths have failed in one completion()
TwoPathsFailed ==
  /\ pc = "dispatching"
  /\ Len(provider_calls) = 2
  /\ provider_calls[1].model # provider_calls[2].model

(***************************************************************************)
(* C34: the first report() after a completion() that did not auto-report.  *)
(***************************************************************************)
\* completion() has returned a response, no outcome was reported for the serving
\* path (every outcome of the cycle is the failure report of a failed path), and the
\* application has not called report() since
ReturnedWithoutAutoReport ==
  /\ pc = "idle"
  /\ result.kind = "response"
  /\ report_status = "none"
  /\ \A k \in 1..Len(outcomes) : outcomes[k].failure_reason # None

\* The report() call requests one more outcome, for the serving model of the last
\* completion() and with the given trace id
ReportSentWith(tid) ==
  /\ report_status' \in {"sent", "failed"}
  /\ Len(outcomes') = Len(outcomes) + 1
  /\ outcomes'[Len(outcomes')].model_id = result.model
  /\ outcomes'[Len(outcomes')].trace_id = tid
  /\ outcomes'[Len(outcomes')].success = report_args'.success

\* C34 as stated: completion() clears the reported flag at its start, so the first
\* report() after a completion() that returned without auto-reporting is sent, not
\* suppressed, and carries the trace id and the serving model of that completion().
C34_FirstReportSentWithCompletionTrace ==
  [][ReportStep /\ ReturnedWithoutAutoReport => ReportSentWith(result.kalibr_trace_id)]_vars

\* C34 amended: the first report() after a completion() that returned without
\* auto-reporting is sent, not suppressed, and carries the serving model of that
\* completion() and, unless the caller passes a trace id of its own, its trace id.
C34_FirstReportSentWithServingModel ==
  [][ReportStep /\ ReturnedWithoutAutoReport =>
       ReportSentWith(IF Truthy(report_args'.trace_id) THEN report_args'.trace_id
                      ELSE result.kalibr_trace_id)]_vars

\* C34 witness: after a fallback, report() without a trace id has been accepted
\* for the second path's model with the trace id of the response
C34_Witness ==
  /\ pc = "idle"
  /\ result.kind = "response"
  /\ result.attempts = 2
  /\ report_status = "sent"
  /\ report_args.trace_id = None
  /\ Len(outcomes) = 2
  /\ outcomes[1].failure_reason # None
  /\ outcomes[2].model_id = result.model
  /\ outcomes[2].model_id # outcomes[1].model_id
  /\ outcomes[2].trace_id = result.kalibr_trace_id

(***************************************************************************)
(* C35: report() when sending the outcome fails.                           *)
(***************************************************************************)
\* The report() before this one, in the same cycle of a completion(), made a
\* request that failed
LastReportFailed == pc = "idle" /\ Truthy(last_trace_id) /\ report_status = "failed"

\* C35: if sending the outcome fails, report() does not raise and the reported flag
\* stays unset, so a later report() in the same cycle is attempted again, not
\* suppressed; the flag becomes set only after a send that succeeded.
C35_FailedSendLeavesFlagUnset ==
  [][ReportStep =>
       /\ report_status' = "failed" =>
            /\ ~outcome_reported'
            /\ Len(outcomes') = Len(outcomes) + 1
       /\ LastReportFailed =>
            /\ ~outcome_reported
            /\ report_status' \in {"sent", "failed"}
            /\ Len(outcomes') = Len(outcomes) + 1
       /\ (~outcome_reported /\ outcome_reported') =>
            /\ report_status' = "sent"
            /\ accepted']_vars

\* C35 witness: with no success predicate, the first path served, the first
\* report() failed to send and the second one, in the same cycle, was accepted
C35_Witness ==
  /\ pc = "idle"
  /\ ~success_when
  /\ result.kind = "response"
  /\ result.attempts = 1
  /\ Len(outcomes) = 2
  /\ report_status = "sent"
  /\ outcome_reported

(***************************************************************************)
(* C36: report() before any completion().                                  *)
(***************************************************************************)
\* No completion() has run on the router: it has no last trace id
NoCompletionYet == pc = "idle" /\ ~Truthy(last_trace_id)

\* The report() call raises ValueError (Must call completion() before report()),
\* makes no request and leaves the flag unset
ReportRaisesUnsent ==
  /\ report_status' = "raised"
  /\ outcomes' = outcomes
  /\ ~outcome_reported'

\* C36 as stated: report() on a router on which no completion() has run, without an
\* explicit trace id, raises an error stating that completion() must be called
\* first, sends nothing and leaves the reported flag unset.
C36_ReportBeforeCompletionRaises ==
  [][ReportStep /\ NoCompletionYet /\ ~Truthy(report_args'.trace_id) =>
       ReportRaisesUnsent]_vars

\* C36 amended: the same, on a router whose reported flag is unset; once a report()
\* with an explicit trace id has been accepted and has set the flag, report()
\* returns without raising, sends nothing and leaves the flag set.
C36_ReportBeforeCompletionRaisesUnlessFlagSet ==
  [][ReportStep /\ NoCompletionYet /\ ~Truthy(report_args'.trace_id) =>
       IF outcome_reported
         THEN /\ report_status' = "suppressed"
              /\ outcomes' = outcomes
              /\ outcome_reported'
         ELSE ReportRaisesUnsent]_vars

\* C36 witness: report() without a trace id has raised on a router that has run no
\* completion() and has sent nothing
C36_Witness ==
  /\ pc = "idle"
  /\ ~Truthy(last_trace_id)
  /\ result.kind = "none"
  /\ report_status = "raised"
  /\ report_args.trace_id = None
  /\ outcomes = <<>>
  /\ ~outcome_reported

(***************************************************************************)
(* C37: the goal and the declared path list.                               *)
(***************************************************************************)
\* A call of add_path
AddPathStep == \E p \in PathChoices : AddPath(p.model, p.tools, p.params)

\* C37: completion() and report() never change the router's goal or its declared
\* path list (length, order, each path's model, tools and params); the list changes
\* only through add_path, which only appends one path.
C37_OnlyAddPathChangesPathsByAppending ==
  [][/\ goal' = goal
     /\ paths' # paths =>
          /\ AddPathStep
          /\ Len(paths') = Len(paths) + 1
          /\ SubSeq(paths', 1, Len(paths)) = paths
          /\ paths'[Len(paths')] \in PathChoices]_vars

\* C37 witness: a completion() attempted the one declared path and raised, its
\* failure was reported, and add_path has then appended a second path
C37_Witness ==
  /\ pc = "idle"
  /\ result.kind = "raised"
  /\ result.attempts = 1
  /\ Len(outcomes) >= 1
  /\ Len(paths) = 2
  /\ paths[1].model # paths[2].model
  /\ outcomes[1].model_id = paths[1].model
  /\ goal = Goal

(***************************************************************************)
(* C38: an event is sent at most once.                                     *)
(***************************************************************************)
\* C38: under any interleaving of enqueue, the flush loop, flush() and shutdown()
\* on one EventBatcher, no event is included in more than one sent batch.
C38_EventSentAtMostOnce ==
  \A e \in DOMAIN events : events[e].sends <= 1

\* C38 witness: while a flush() holds a drained event it has not sent yet, the flush
\* thread has sent its batch with another event, and shutdown() has been called
C38_Witness ==
  /\ batcher.shutdown
  /\ \E t \in Threads : producers[t].pc = "flush"
  /\ \E e \in DOMAIN events : events[e].status = "drained" /\ events[e].sends = 0
  /\ \E e \in DOMAIN events : events[e].status = "posted" /\ events[e].sends = 1

(***************************************************************************)
(* C39: what flush() has done when it returns.                             *)
(***************************************************************************)
\* This step is the return of thread t's flush()
FlushReturns(t) == producers[t].pc = "flush" /\ producers'[t].pc # "flush"

\* C39: when flush() returns, every event that was enqueued before the call and not
\* dropped by overflow has been passed to a send; none of them remains in the queue
\* or in the flush thread's unsent batch.
C39_FlushSendsEveryPendingEvent ==
  [][\A t \in Threads : FlushReturns(t) =>
       \A e \in producers[t].pending :
         events'[e].status \in {"posted", "post_failed", "discarded"}]_vars

\* What flush() does: it returns when it has found the queue empty, and the events
\* it took from the queue itself have been passed to one send
FlushSendsWhatItDrained ==
  [][\A t \in Threads : FlushReturns(t) =>
       /\ event_queue = <<>>
       /\ \A e \in Elements(producers[t].drained) :
            events'[e].status \in {"posted", "post_failed"} /\ events'[e].sends = 1]_vars

\* A flush() has returned while the flush thread holds an event, enqueued before the
\* call, in its unsent batch
FlushLeftBatchedEvent ==
  /\ \A t \in Threads : producers[t].pc = "idle"
  /\ flusher.batch = <<1>>
  /\ events[1].status = "batched"
  /\ Len(events) >= 2
  /\ events[2].status = "posted"
  /\ flusher.last_flush = 0

(***************************************************************************)
(* C40: concurrent instrumentation of one provider.                        *)
(***************************************************************************)
\* uninstrument() has been called and has returned
Uninstrumented == \E t \in Threads : instrumenters[t].pc = "uninstrumented"

\* The SDK method is the SDK's own or one wrapper around it
WrappedAtMostOnce == openai_sdk.create \in {SdkCreate, Wrap(SdkCreate)}

\* The registry lists the provider at most once
ListedAtMostOnce == Cardinality({p \in instrumented_providers : p = "openai"}) <= 1

\* C40: under any interleaving of concurrent auto_instrument or instrument calls for
\* one provider, the SDK method is wrapped at most once and the saved original is
\* the unpatched SDK method, so a following uninstrument restores the unpatched SDK,
\* and the registry lists the provider at most once.
C40_ConcurrentInstrumentWrapsOnce ==
  /\ WrappedAtMostOnce
  /\ instrumentation.original_create \in {None, SdkCreate}
  /\ Uninstrumented => openai_sdk.create = SdkCreate
  /\ ListedAtMostOnce

\* What holds under every interleaving: the registry lists the provider at most
\* once, and only after an instrument() call has succeeded
RegistryListsProviderOnce ==
  /\ ListedAtMostOnce
  /\ "openai" \in instrumented_providers =>
       \E t \in Threads : instrumenters[t].success

\* Two concurrent calls have wrapped the method twice, and uninstrument() has left
\* the first wrapper in place
UninstrumentLeftWrapper ==
  /\ Uninstrumented
  /\ ~instrumentation.is_instrumented
  /\ openai_sdk.create = Wrap(SdkCreate)
  /\ instrumentation.original_create = Wrap(SdkCreate)

====
